---- MODULE Spec2Model ----
(***************************************************************************)
(* Transaction pool core of fuel-core (crates/services/txpool_v2):         *)
(* Pool (pool.rs), the tip/gas selection algorithm (ratio_tip_gas.rs),     *)
(* the dependency-graph storage and the collision manager.                 *)
(***************************************************************************)
EXTENDS Integers, Sequences, FiniteSets, TLC

VARIABLES
    config,                 \* Pool.config
    storage,                \* Pool.storage: StorageIndex -> StorageData
    tx_id_to_storage_id,    \* Pool.tx_id_to_storage_id: TxId -> StorageIndex
    collision_manager,      \* Pool.collision_manager: resource -> StorageIndex of its claimant
    selection_algorithm,    \* RatioTipGasSelection.executable_transactions_sorted_tip_gas_ratio
    current_gas,            \* Pool.current_gas
    current_bytes_size,     \* Pool.current_bytes_size
    now,                    \* the clock read by Instant::now()
    pending,                \* the transaction handed to insert, not yet processed
    last,                   \* outcome of the last public call
    phase,                  \* "fill": any call; "drain": extract calls only
    drain_start,            \* transactions in the pool when the drain started
    drained,                \* transactions returned by the extract calls of the drain
    current_height,         \* SharedState.current_height
    time_txs_submitted,     \* SharedState.time_txs_submitted: ids in order of submission
    tasks,                  \* per task: the steps left of what it runs, the locks it holds
    streams,                \* what the branches of Task::run wait for
    chain,                  \* the committed blocks, by height: the ids of their transactions
    should_continue         \* the result of the last call of Task::run

\* The state of the service around the pool
serviceVars == <<current_height, time_txs_submitted, tasks, streams, chain, should_continue>>

vars == <<config, storage, tx_id_to_storage_id, collision_manager, selection_algorithm,
          current_gas, current_bytes_size, now, pending, last,
          phase, drain_start, drained, serviceVars>>

----------------------------------------------------------------------------
(* Bounds of the model *)

NumTxIds == 3       \* transaction ids are 1..NumTxIds
MaxTip == 2         \* tips are 1..MaxTip
MaxGasVal == 2      \* max_gas is 0..MaxGasVal
MaxTime == 1        \* the clock runs over 0..MaxTime
MaxGasPrice == 2    \* gas prices are 1..MaxGasPrice

(* Config: the limits set by the node operator *)
PoolMaxTxs == 3         \* config.pool_limits.max_txs
PoolMaxGas == 3         \* config.pool_limits.max_gas
PoolMaxBytes == 6       \* config.pool_limits.max_bytes_size
MaxBlockGas == 3        \* config.max_block_gas
MaxBlockSize == 5       \* constraints.maximum_block_size
MaxBlockTxs == 2        \* constraints.maximum_txs
MaxTxsChainCount == 2   \* config.max_txs_chain_count
TxMaxFeeLimit == 4      \* the max_fee_limit policy the transactions carry

\* The configurations the pool is built with: one whose gas limit binds
\* first, one whose count limit binds first
Configs ==
    {[max_txs |-> PoolMaxTxs, max_gas |-> PoolMaxGas, max_bytes_size |-> PoolMaxBytes,
      max_block_gas |-> MaxBlockGas, max_txs_chain_count |-> MaxTxsChainCount,
      utxo_validation |-> TRUE],
     [max_txs |-> PoolMaxTxs - 1, max_gas |-> PoolMaxGas,
      max_bytes_size |-> PoolMaxBytes, max_block_gas |-> MaxBlockGas - 1,
      max_txs_chain_count |-> MaxTxsChainCount, utxo_validation |-> TRUE]}

TxIds == 1..NumTxIds

----------------------------------------------------------------------------
(* Generic helpers *)


\* u64::saturating_sub
SatSub(a, b) == IF a > b THEN a - b ELSE 0

RECURSIVE Gcd(_, _)
Gcd(a, b) == IF b = 0 THEN a ELSE Gcd(b, a % b)

RECURSIVE SumOver(_, _)
\* Sum of f[x] over the finite set S
SumOver(S, f) ==
    IF S = {} THEN 0
    ELSE LET x == CHOOSE y \in S : TRUE IN f[x] + SumOver(S \ {x}, f)

Range(s) == {s[i] : i \in 1..Len(s)}
NoDuplicates(s) == \A i, j \in 1..Len(s) : i # j => s[i] # s[j]

RECURSIVE SetToSortedSeq(_)
\* The elements of a finite set of integers in increasing order
SetToSortedSeq(S) ==
    IF S = {} THEN <<>>
    ELSE LET m == CHOOSE x \in S : \A y \in S : x <= y
         IN <<m>> \o SetToSortedSeq(S \ {m})

\* A function without the keys in K
Without(f, K) == [k \in DOMAIN f \ K |-> f[k]]

\* A function with key k set to v
With(f, k, v) == [x \in DOMAIN f \cup {k} |-> IF x = k THEN v ELSE f[x]]

----------------------------------------------------------------------------
(* Transactions (PoolTransaction, opaque to the pool apart from these
   attributes) and the persistent storage view *)

\* A UTXO is <<id of the producing transaction, output index>>; transaction 0
\* stands for the confirmed transactions of the chain.
NumOutputs == 1
Confirmed == 0

DbCoins == {<<Confirmed, 0>>}       \* PersistentStorageView.utxo
DbMessages == {1, 2}                \* PersistentStorageView.message
DbSpentMessages == {2}              \* PersistentStorageView.spent_message
DbBlobs == {1}                      \* PersistentStorageView.blob_exist
BlackListedMessages == {3}          \* config.black_list (message nonces)

Tx(id, tip, max_gas, inputs, messages, contract, blob) ==
    [id |-> id, tip |-> tip, max_gas |-> max_gas,
     bytes |-> 1 + Cardinality(inputs) + Cardinality(messages),
     inputs |-> inputs, messages |-> messages,
     contract |-> contract, blob |-> blob,
     outputs |-> NumOutputs, max_fee_limit |-> TxMaxFeeLimit]

\* The resource shapes a candidate with this id may have.  A candidate spends
\* outputs of transactions with a lower id only: ids are interchangeable, so
\* the direction of the dependencies among them is fixed, and the shapes
\* that fail whatever the id are given to one id.
Shape(i, m, c, b) == [inputs |-> i, messages |-> m, contract |-> c, blob |-> b]

\* Shapes that fail a check against the persistent storage or the black list
BadShapes ==
         {Shape({<<Confirmed, 1>>}, {}, 0, 0)}              \* spends a coin that does not exist
    \cup {Shape({}, {n}, 0, 0) : n \in 2..3}                \* spends a spent, a blacklisted message
    \cup {Shape({}, {}, 0, b) : b \in DbBlobs}              \* Blob transaction, blob taken

Shapes(id) ==
    LET others == {j \in TxIds : j < id} IN
          {Shape({<<Confirmed, 0>>}, {}, 0, 0)}                 \* spends the confirmed coin
     \cup {Shape({}, {1}, 0, 0)}                                \* spends message 1
     \cup {Shape({}, {}, 1, 0)}                                 \* creates contract 1
     \cup {Shape({<<j, 0>>}, {}, 0, 0) : j \in others}          \* child of j
     \cup {Shape({<<j, 0>>, <<k, 0>>}, {}, 0, 0) : j, k \in others}   \* child of j and k
     \cup {Shape({<<j, 0>>}, {1}, 0, 0) : j \in others}         \* child of j spending message 1
     \cup (IF id = 1 THEN BadShapes ELSE {})

\* <<tip, max_gas>> of the candidates: the tip or the gas is the unit
Economics == {e \in (1..MaxTip) \X (0..MaxGasVal) : e[1] = 1 \/ e[2] = 1}

\* The transactions that may be handed to insert
Candidates ==
    UNION {{Tx(id, e[1], e[2], s.inputs, s.messages, s.contract, s.blob) :
                e \in Economics, s \in Shapes(id)} : id \in TxIds}

\* The resources a transaction claims, as <<kind, a, b>>: the unconfirmed
\* outputs and the messages it spends, the contract and the blob it creates
Claims(tx) ==
         {<<"coin", u[1], u[2]>> : u \in {v \in tx.inputs : v[1] # Confirmed}}
    \cup {<<"message", n, 0>> : n \in tx.messages}
    \cup (IF tx.contract # 0 THEN {<<"contract", tx.contract, 0>>} ELSE {})
    \cup (IF tx.blob # 0 THEN {<<"blob", tx.blob, 0>>} ELSE {})

----------------------------------------------------------------------------
(* Storage: the dependency graph (§4.4 of the specification) *)

StorageData(tx, instant, parents) ==
    [transaction |-> tx, creation_instant |-> instant,
     dependents_cumulative_tip |-> tx.tip,
     dependents_cumulative_gas |-> tx.max_gas,
     dependents_cumulative_bytes_size |-> tx.bytes,
     number_dependents_in_chain |-> 1,
     parents |-> parents, children |-> {}]

\* Storage::get_dependents: the direct children
GetDependents(st, idx) == IF idx \in DOMAIN st THEN st[idx].children ELSE {}

\* Storage::has_dependencies
HasDependencies(st, idx) == idx \in DOMAIN st /\ st[idx].parents # {}

RECURSIVE UpwardClosure(_, _)
\* The indices in S and everything reachable from them through parents
UpwardClosure(st, S) ==
    LET next == S \cup UNION {st[i].parents \cap DOMAIN st : i \in S \cap DOMAIN st}
    IN IF next = S THEN S ELSE UpwardClosure(st, next)

RECURSIVE ChainDepth(_, _)
\* Length of the longest chain from a root down to idx
ChainDepth(st, idx) ==
    IF st[idx].parents \cap DOMAIN st = {} THEN 1
    ELSE 1 + (CHOOSE d \in {ChainDepth(st, p) : p \in st[idx].parents \cap DOMAIN st} :
                \A q \in st[idx].parents \cap DOMAIN st : ChainDepth(st, q) <= d)

\* The pool transaction that produced the UTXO, if any
Producers(st, utxo) ==
    {i \in DOMAIN st : st[i].transaction.id = utxo[1] /\ utxo[2] < st[i].transaction.outputs}

\* Storage::validate_inputs
ValidateInputs(st, tx, utxo_validation) ==
    /\ \A u \in tx.inputs :
         utxo_validation => (u \in DbCoins \/ Producers(st, u) # {})
    /\ \A n \in tx.messages : n \in DbMessages /\ n \notin DbSpentMessages

\* Storage::can_store_transaction with no bound on the length of a chain
CanStoreAnyChain(st, tx, max_txs_chain_count) ==
    LET parents == UNION {Producers(st, u) : u \in tx.inputs}
    IN [err |-> "none", tx |-> tx, parents |-> parents,
        all_dependencies |-> UpwardClosure(st, parents)]

\* Storage::can_store_transaction
CanStoreTransaction(st, tx, max_txs_chain_count) ==
    LET parents == UNION {Producers(st, u) : u \in tx.inputs}
        all == UpwardClosure(st, parents)
        depth == IF parents = {} THEN 1
                 ELSE 1 + (CHOOSE d \in {ChainDepth(st, p) : p \in parents} :
                             \A q \in parents : ChainDepth(st, q) <= d)
    IN IF depth > max_txs_chain_count
       THEN [err |-> "ChainTooLong", tx |-> tx, parents |-> {}, all_dependencies |-> {}]
       ELSE [err |-> "none", tx |-> tx, parents |-> parents, all_dependencies |-> all]

\* The slot a new record is put in.  StorageIndex is an opaque handle; the
\* slot of a transaction is determined by its id and is free again once the
\* transaction is removed.
IndexBase == 10
FreeIndex(st, tx) == IndexBase + tx.id

\* Storage::store_transaction
StoreTransaction(st, checked, instant) ==
    LET tx == checked.tx
        idx == FreeIndex(st, tx)
        linked == [i \in DOMAIN st |->
            LET d == st[i]
                d1 == IF i \in checked.parents
                      THEN [d EXCEPT !.children = @ \cup {idx}] ELSE d
            IN IF i \in checked.all_dependencies
               THEN [d1 EXCEPT
                       !.dependents_cumulative_tip = @ + tx.tip,
                       !.dependents_cumulative_gas = @ + tx.max_gas,
                       !.dependents_cumulative_bytes_size = @ + tx.bytes,
                       !.number_dependents_in_chain = @ + 1]
               ELSE d1]
    IN [storage |-> With(linked, idx, StorageData(tx, instant, checked.parents)),
        index |-> idx]

\* Removal of one record that leaves the aggregates of its ancestors as they
\* were
RemoveNodeKeepingAggregates(st, idx) ==
    [i \in DOMAIN st \ {idx} |->
       [st[i] EXCEPT !.children = @ \ {idx}, !.parents = @ \ {idx}]]

\* Removal of one record: its links are cut and the aggregates of its
\* ancestors are decreased by its own values
RemoveNode(st, idx) ==
    LET tx == st[idx].transaction
        anc == UpwardClosure(st, st[idx].parents)
    IN [i \in DOMAIN st \ {idx} |->
          LET d == [st[i] EXCEPT !.children = @ \ {idx}, !.parents = @ \ {idx}]
          IN IF i \in anc
             THEN [d EXCEPT
                     !.dependents_cumulative_tip = SatSub(@, tx.tip),
                     !.dependents_cumulative_gas = SatSub(@, tx.max_gas),
                     !.dependents_cumulative_bytes_size = SatSub(@, tx.bytes),
                     !.number_dependents_in_chain = SatSub(@, 1)]
             ELSE d]

\* Storage::remove
Remove(st, idx) == [storage |-> RemoveNode(st, idx), data |-> st[idx]]

RECURSIVE RemoveSubtrees(_, _)
\* Removes the subtrees of the indices of the sequence, one after the other,
\* root first; an index that is no longer stored removes nothing
RemoveSubtrees(st, roots) ==
    IF roots = <<>> THEN [storage |-> st, removed |-> <<>>]
    ELSE LET idx == Head(roots) IN
         IF idx \notin DOMAIN st THEN RemoveSubtrees(st, Tail(roots))
         ELSE LET below == RemoveSubtrees(RemoveNode(st, idx),
                                          SetToSortedSeq(st[idx].children))
                  rest == RemoveSubtrees(below.storage, Tail(roots))
              IN [storage |-> rest.storage,
                  removed |-> <<st[idx]>> \o below.removed \o rest.removed]

\* Storage::remove_transaction_and_dependents_subtree
RemoveTransactionAndDependentsSubtree(st, idx) == RemoveSubtrees(st, <<idx>>)

----------------------------------------------------------------------------
(* Collision manager (§4.2 of the specification): resource -> claimant *)

\* CollisionManager::find_collisions: the pool transactions claiming a
\* resource the transaction claims
FindCollisions(cm, tx) == {cm[r] : r \in Claims(tx) \cap DOMAIN cm}

\* CollisionManager::on_stored_transaction
OnStoredTransaction(cm, idx, tx) ==
    [r \in DOMAIN cm \cup Claims(tx) |-> IF r \in Claims(tx) THEN idx ELSE cm[r]]

\* CollisionManager::on_removed_transaction
OnRemovedTransaction(cm, tx) == Without(cm, Claims(tx))

----------------------------------------------------------------------------
(* Selection algorithm: ratio_tip_gas.rs *)

\* num_rational::Ratio::new: the fraction in lowest terms
RatioNew(n, d) == LET g == Gcd(n, d) IN <<n \div g, d \div g>>

\* Ratio::cmp: -1, 0 or 1
RatioCmp(a, b) ==
    IF a[1] * b[2] < b[1] * a[2] THEN -1
    ELSE IF a[1] * b[2] > b[1] * a[2] THEN 1 ELSE 0

IntCmp(a, b) == IF a < b THEN -1 ELSE IF a > b THEN 1 ELSE 0

\* RatioTipGasSelection::key
Key(store_entry) ==
    [ratio |-> RatioNew(store_entry.transaction.tip, store_entry.transaction.max_gas),
     creation_instant |-> store_entry.creation_instant,
     tx_id |-> store_entry.transaction.id]

\* Key::cmp with the ratios compared the other way round
KeyCmpLowRatioFirst(self, other) ==
    LET cmp == RatioCmp(other.ratio, self.ratio) IN
    IF cmp = 0
    THEN LET instant_cmp == IntCmp(other.creation_instant, self.creation_instant) IN
         IF instant_cmp = 0 THEN IntCmp(self.tx_id, other.tx_id) ELSE instant_cmp
    ELSE cmp

\* Key::cmp with the creation instants compared the other way round
KeyCmpLaterFirst(self, other) ==
    LET cmp == RatioCmp(self.ratio, other.ratio) IN
    IF cmp = 0
    THEN LET instant_cmp == IntCmp(self.creation_instant, other.creation_instant) IN
         IF instant_cmp = 0 THEN IntCmp(self.tx_id, other.tx_id) ELSE instant_cmp
    ELSE cmp

\* Key::cmp
KeyCmp(self, other) ==
    LET cmp == RatioCmp(self.ratio, other.ratio) IN
    IF cmp = 0
    THEN LET instant_cmp == IntCmp(other.creation_instant, self.creation_instant) IN
         IF instant_cmp = 0 THEN IntCmp(self.tx_id, other.tx_id) ELSE instant_cmp
    ELSE cmp

RECURSIVE SortedEntries(_)
\* The entries of the BTreeMap<Reverse<Key>, StorageIndex> in iteration order:
\* Reverse makes the greatest Key come first
SortedEntries(sel) ==
    IF sel = {} THEN <<>>
    ELSE LET first == CHOOSE e \in sel : \A f \in sel : KeyCmp(e.key, f.key) >= 0
         IN <<first>> \o SortedEntries(sel \ {first})

\* RatioTipGasSelection::on_removed_transaction_inner
OnRemovedTransactionInner(sel, key) == {e \in sel : e.key # key}

\* RatioTipGasSelection::on_removed_transaction
SelOnRemovedTransaction(sel, storage_entry) ==
    OnRemovedTransactionInner(sel, Key(storage_entry))

\* RatioTipGasSelection::new_executable_transaction (BTreeMap::insert
\* replaces the value of a key already present)
NewExecutableTransaction(sel, storage_id, store_entry) ==
    {e \in sel : e.key # Key(store_entry)}
        \cup {[key |-> Key(store_entry), id |-> storage_id]}

Reverse(s) == [i \in 1..Len(s) |-> s[Len(s) + 1 - i]]

\* RatioTipGasSelection::get_less_worth_txs
GetLessWorthTxs(sel) ==
    LET sorted == Reverse(SortedEntries(sel)) IN [i \in 1..Len(sorted) |-> sorted[i].id]

\* TransactionFee::checked_from_tx(..).max_fee() with gas_price_factor 1
MaxFeeFromGasPrice(tx, gas_price) == tx.max_gas * gas_price + tx.tip

\* tx_is_gas_price_valid accepting every transaction
AnyGasPriceValid(tx, gas_price) == TRUE

\* tx_is_gas_price_valid
TxIsGasPriceValid(tx, gas_price) == MaxFeeFromGasPrice(tx, gas_price) <= tx.max_fee_limit

\* The selection of a transaction marking every dependent for promotion,
\* whether or not another parent of it is still stored
SelectPromotingEveryDependent(acc, key, dependents, removed) ==
    [acc EXCEPT
       !.gas_left = SatSub(@, removed.data.transaction.max_gas),
       !.space_left = SatSub(@, removed.data.transaction.bytes),
       !.nb_left = SatSub(@, 1),
       !.storage = removed.storage,
       !.clean_up_list = Append(@, key),
       !.result = Append(@, removed.data),
       !.transactions_to_promote = @ \o SetToSortedSeq(dependents)]

\* The selection of a transaction whose record is left in the storage
SelectKeepingStored(acc, key, dependents, removed) ==
    [acc EXCEPT
       !.gas_left = SatSub(@, removed.data.transaction.max_gas),
       !.space_left = SatSub(@, removed.data.transaction.bytes),
       !.nb_left = SatSub(@, 1),
       !.clean_up_list = Append(@, key),
       !.result = Append(@, removed.data),
       !.transactions_to_promote = @ \o SetToSortedSeq(
            {d \in dependents : ~HasDependencies(removed.storage, d)})]

\* gather_best_txs: the transaction under key is selected; removed is what
\* storage.remove returned for it and dependents are its children before that
SelectTransaction(acc, key, dependents, removed) ==
    [acc EXCEPT
       !.gas_left = SatSub(@, removed.data.transaction.max_gas),
       !.space_left = SatSub(@, removed.data.transaction.bytes),
       !.nb_left = SatSub(@, 1),
       !.storage = removed.storage,
       !.clean_up_list = Append(@, key),
       !.result = Append(@, removed.data),
       !.transactions_to_promote = @ \o SetToSortedSeq(
            {d \in dependents : ~HasDependencies(removed.storage, d)})]

RECURSIVE SweepUntilNoFit(_, _, _, _)
\* The for loop of gather_best_txs ending at the first transaction that does
\* not fit what is left of the block
SweepUntilNoFit(entries, i, acc, gas_price) ==
    IF i > Len(entries) THEN acc
    ELSE
      LET key == entries[i].key
          storage_id == entries[i].id
      IN IF storage_id \notin DOMAIN acc.storage
         THEN SweepUntilNoFit(entries, i + 1,
                [acc EXCEPT !.transactions_to_remove = Append(@, key)], gas_price)
         ELSE
           LET stored_transaction == acc.storage[storage_id]
               tx == stored_transaction.transaction
           IN IF ~TxIsGasPriceValid(tx, gas_price)
              THEN SweepUntilNoFit(entries, i + 1, acc, gas_price)
              ELSE IF tx.max_gas > acc.gas_left \/ tx.bytes > acc.space_left
              THEN acc
              ELSE SweepUntilNoFit(entries, i + 1,
                     SelectTransaction(acc, key, GetDependents(acc.storage, storage_id),
                                       Remove(acc.storage, storage_id)),
                     gas_price)

RECURSIVE SweepEntries(_, _, _, _)
\* The for loop of gather_best_txs over the entries from position i on
SweepEntries(entries, i, acc, gas_price) ==
    IF i > Len(entries) THEN acc
    ELSE
      LET key == entries[i].key
          storage_id == entries[i].id
      IN IF storage_id \notin DOMAIN acc.storage
         THEN SweepEntries(entries, i + 1,
                [acc EXCEPT !.transactions_to_remove = Append(@, key)], gas_price)
         ELSE
           LET stored_transaction == acc.storage[storage_id]
               tx == stored_transaction.transaction
           IN IF ~TxIsGasPriceValid(tx, gas_price)
              THEN SweepEntries(entries, i + 1, acc, gas_price)
              ELSE IF tx.max_gas > acc.gas_left \/ tx.bytes > acc.space_left
              THEN SweepEntries(entries, i + 1, acc, gas_price)
              ELSE SweepEntries(entries, i + 1,
                     SelectTransaction(acc, key, GetDependents(acc.storage, storage_id),
                                       Remove(acc.storage, storage_id)),
                     gas_price)

RECURSIVE RemoveKeys(_, _)
\* gather_best_txs: the keys of a list are taken out of the selection index
RemoveKeys(sel, keys) ==
    IF keys = <<>> THEN sel
    ELSE RemoveKeys(OnRemovedTransactionInner(sel, Head(keys)), Tail(keys))

\* The end of a pass putting no dependent into the selection index
PromoteNone(sel, st, promote) == sel

RECURSIVE PromoteAll(_, _, _)
\* gather_best_txs: the dependents left without a parent become executable
PromoteAll(sel, st, promote) ==
    IF promote = <<>> THEN sel
    ELSE PromoteAll(NewExecutableTransaction(sel, Head(promote), st[Head(promote)]),
                    st, Tail(promote))

RECURSIVE GatherLoop(_, _, _)

\* gather_best_txs: what follows the for loop of one pass of the while loop
EndOfPass(sel, pass, gas_price) ==
    IF pass.clean_up_list = <<>> /\ pass.transactions_to_promote = <<>>
    THEN [err |-> "none", selection |-> RemoveKeys(sel, pass.transactions_to_remove),
          storage |-> pass.storage, result |-> pass.result]
    ELSE GatherLoop(
           PromoteAll(RemoveKeys(RemoveKeys(sel, pass.transactions_to_remove),
                                 pass.clean_up_list),
                      pass.storage, pass.transactions_to_promote),
           pass, gas_price)

\* The while loop of gather_best_txs
GatherLoop(sel, acc, gas_price) ==
    IF ~(acc.gas_left > 0 /\ acc.nb_left > 0 /\ acc.space_left > 0 /\ sel # {})
    THEN [err |-> "none", selection |-> sel, storage |-> acc.storage,
          result |-> acc.result]
    ELSE EndOfPass(sel,
           SweepEntries(SortedEntries(sel), 1,
                        [acc EXCEPT !.clean_up_list = <<>>,
                                    !.transactions_to_remove = <<>>,
                                    !.transactions_to_promote = <<>>], gas_price),
           gas_price)

NoGasPrice == 0

\* gather_best_txs going on without a gas price, every fee taken as payable
GatherWithoutGasPrice(sel, st, constraints, gas_price) ==
    GatherLoop(sel,
       [gas_left |-> constraints.max_gas,
        space_left |-> constraints.maximum_block_size,
        nb_left |-> constraints.maximum_txs,
        storage |-> st, result |-> <<>>,
        clean_up_list |-> <<>>, transactions_to_remove |-> <<>>,
        transactions_to_promote |-> <<>>], gas_price)

\* RatioTipGasSelection::gather_best_txs; gas_price = NoGasPrice when the
\* provider has no price
GatherBestTxs(sel, st, constraints, gas_price) ==
    IF gas_price = NoGasPrice
    THEN [err |-> "GasPriceNotFound", selection |-> sel, storage |-> st, result |-> <<>>]
    ELSE GatherLoop(sel,
            [gas_left |-> constraints.max_gas,
             space_left |-> constraints.maximum_block_size,
             nb_left |-> constraints.maximum_txs,
             storage |-> st, result |-> <<>>,
             clean_up_list |-> <<>>, transactions_to_remove |-> <<>>,
             transactions_to_promote |-> <<>>], gas_price)

----------------------------------------------------------------------------
(* Pool: pool.rs.  A pool value p is the record of the fields of Pool. *)

\* Pool::new
NewPool(cfg) ==
    [config |-> cfg, storage |-> <<>>, tx_id_to_storage_id |-> <<>>, collision_manager |-> <<>>,
     selection_algorithm |-> {}, current_gas |-> 0, current_bytes_size |-> 0]

RECURSIVE UpdateComponentsKeepingGas(_, _)
\* update_components_and_caches_on_removal without the decrease of current_gas
UpdateComponentsKeepingGas(p, removed_transactions) ==
    IF removed_transactions = <<>> THEN p
    ELSE LET storage_entry == Head(removed_transactions)
             tx == storage_entry.transaction
         IN UpdateComponentsKeepingGas(
              [p EXCEPT
                 !.current_bytes_size = SatSub(@, tx.bytes),
                 !.tx_id_to_storage_id = Without(@, {tx.id}),
                 !.collision_manager = OnRemovedTransaction(@, tx),
                 !.selection_algorithm = SelOnRemovedTransaction(@, storage_entry)],
              Tail(removed_transactions))

RECURSIVE UpdateComponentsKeepingId(_, _)
\* update_components_and_caches_on_removal leaving the id of a removed
\* transaction in tx_id_to_storage_id
UpdateComponentsKeepingId(p, removed_transactions) ==
    IF removed_transactions = <<>> THEN p
    ELSE LET storage_entry == Head(removed_transactions)
             tx == storage_entry.transaction
         IN UpdateComponentsKeepingId(
              [p EXCEPT
                 !.current_gas = SatSub(@, tx.max_gas),
                 !.current_bytes_size = SatSub(@, tx.bytes),
                 !.collision_manager = OnRemovedTransaction(@, tx),
                 !.selection_algorithm = SelOnRemovedTransaction(@, storage_entry)],
              Tail(removed_transactions))

RECURSIVE UpdateComponentsAndCachesOnRemoval(_, _)
\* Pool::update_components_and_caches_on_removal
UpdateComponentsAndCachesOnRemoval(p, removed_transactions) ==
    IF removed_transactions = <<>> THEN p
    ELSE LET storage_entry == Head(removed_transactions)
             tx == storage_entry.transaction
         IN UpdateComponentsAndCachesOnRemoval(
              [p EXCEPT
                 !.current_gas = SatSub(@, tx.max_gas),
                 !.current_bytes_size = SatSub(@, tx.bytes),
                 !.tx_id_to_storage_id = Without(@, {tx.id}),
                 !.collision_manager = OnRemovedTransaction(@, tx),
                 !.selection_algorithm = SelOnRemovedTransaction(@, storage_entry)],
              Tail(removed_transactions))

\* CollisionsExt::check_collision_requirements (§4.2): a candidate with
\* dependencies displaces nothing; otherwise its ratio must strictly exceed
\* the subtree ratio of every collider
CheckCollisionRequirements(collisions, tx, has_dependencies, st) ==
    IF has_dependencies /\ collisions # {} THEN "Collided"
    ELSE IF \E c \in collisions :
              RatioCmp(RatioNew(tx.tip, tx.max_gas),
                       RatioNew(st[c].dependents_cumulative_tip,
                                st[c].dependents_cumulative_gas)) <= 0
         THEN "Collided"
         ELSE "none"

\* can_fit_into_pool finding room whatever the pool holds
CanFitAlways(p, checked_transaction) ==
    [err |-> "none", enough |-> TRUE,
     left |-> [gas_left |-> 0, bytes_left |-> 0, txs_left |-> 0]]

\* can_fit_into_pool without the refusal of a candidate that has dependencies
CanFitIgnoringDependencies(p, checked_transaction) ==
    LET tx == checked_transaction.tx
        gas_left == p.current_gas + tx.max_gas
        bytes_left == p.current_bytes_size + tx.bytes
        txs_left == Cardinality(DOMAIN p.tx_id_to_storage_id) + 1
        left == [gas_left |-> gas_left, bytes_left |-> bytes_left, txs_left |-> txs_left]
    IN [err |-> "none",
        enough |-> /\ gas_left <= p.config.max_gas
                   /\ bytes_left <= p.config.max_bytes_size
                   /\ txs_left <= p.config.max_txs,
        left |-> left]

\* Pool::can_fit_into_pool
CanFitIntoPool(p, checked_transaction) ==
    LET tx == checked_transaction.tx
        gas_left == p.current_gas + tx.max_gas
        bytes_left == p.current_bytes_size + tx.bytes
        txs_left == Cardinality(DOMAIN p.tx_id_to_storage_id) + 1
        left == [gas_left |-> gas_left, bytes_left |-> bytes_left, txs_left |-> txs_left]
    IN IF /\ gas_left <= p.config.max_gas
          /\ bytes_left <= p.config.max_bytes_size
          /\ txs_left <= p.config.max_txs
       THEN [err |-> "none", enough |-> TRUE, left |-> left]
       ELSE IF checked_transaction.all_dependencies # {}
       THEN [err |-> "NotInsertedLimitHit", enough |-> FALSE, left |-> left]
       ELSE [err |-> "none", enough |-> FALSE, left |-> left]

RECURSIVE FindFreeSpaceLoop(_, _, _, _, _, _)
\* The while loop of find_free_space; sorted_txs[i] is the next item of the iterator
FindFreeSpaceLoop(p, sorted_txs, i, left, checked_transaction, transactions_to_remove) ==
    IF ~(\/ left.gas_left > p.config.max_gas
         \/ left.bytes_left > p.config.max_bytes_size
         \/ left.txs_left > p.config.max_txs)
    THEN [err |-> "none", transactions_to_remove |-> transactions_to_remove]
    ELSE IF i > Len(sorted_txs)
    THEN [err |-> "NotInsertedLimitHit", transactions_to_remove |-> <<>>]
    ELSE
      LET storage_id == sorted_txs[i] IN
      IF storage_id \in checked_transaction.all_dependencies
      THEN FindFreeSpaceLoop(p, sorted_txs, i + 1, left, checked_transaction,
                             transactions_to_remove)
      ELSE IF storage_id \notin DOMAIN p.storage
      THEN FindFreeSpaceLoop(p, sorted_txs, i + 1, left, checked_transaction,
                             transactions_to_remove)
      ELSE
        LET storage_data == p.storage[storage_id]
            ratio == RatioNew(storage_data.dependents_cumulative_tip,
                              storage_data.dependents_cumulative_gas)
            new_tx_ratio == RatioNew(checked_transaction.tx.tip,
                                     checked_transaction.tx.max_gas)
        IN IF RatioCmp(ratio, new_tx_ratio) > 0
           THEN [err |-> "NotInsertedLimitHit", transactions_to_remove |-> <<>>]
           ELSE FindFreeSpaceLoop(p, sorted_txs, i + 1,
                  [gas_left |-> SatSub(left.gas_left, storage_data.dependents_cumulative_gas),
                   bytes_left |-> SatSub(left.bytes_left,
                                         storage_data.dependents_cumulative_bytes_size),
                   txs_left |-> SatSub(left.txs_left,
                                       storage_data.number_dependents_in_chain)],
                  checked_transaction, Append(transactions_to_remove, storage_id))

\* find_free_space giving up no transaction
FindNoFreeSpace(p, left, checked_transaction) ==
    [err |-> "none", transactions_to_remove |-> <<>>]

\* Pool::find_free_space
FindFreeSpace(p, left, checked_transaction) ==
    FindFreeSpaceLoop(p, GetLessWorthTxs(p.selection_algorithm), 1, left,
                      checked_transaction, <<>>)

\* BlackList::check_blacklisting
CheckBlacklisting(tx) == tx.messages \cap BlackListedMessages = {}

\* check_blob_does_not_exist finding no blob in the persistent storage
BlobNeverExists(tx) == TRUE

\* Pool::check_blob_does_not_exist
CheckBlobDoesNotExist(tx) == ~(tx.blob # 0 /\ tx.blob \in DbBlobs)

Rejected(e) ==
    [err |-> e, checked_transaction |-> [tx |-> <<>>, parents |-> {}, all_dependencies |-> {}],
     transactions_to_remove |-> <<>>, collisions |-> {}]

\* can_insert_transaction with the outcome of the collision rule dropped
CollisionRequirementsIgnored(p, checked_transaction, collisions) == "none"

\* Pool::can_insert_transaction, the collision rule: "none" or "Collided"
CollisionRequirements(p, checked_transaction, collisions) ==
    LET has_dependencies == checked_transaction.all_dependencies # {}
    IN CheckCollisionRequirements(collisions, checked_transaction.tx,
                                  has_dependencies, p.storage)

\* can_insert_transaction finding no collision among the dependencies
CollisionNeverDependency(collisions, checked_transaction) == FALSE

\* Pool::can_insert_transaction: a collision is one of the dependencies
CollisionIsDependency(collisions, checked_transaction) ==
    collisions \cap checked_transaction.all_dependencies # {}

\* can_insert_transaction taking no transaction for one it already holds
NeverDuplicateTxId(p, tx) == FALSE

\* Pool::can_insert_transaction: the id of tx is already in the pool
IsDuplicateTxId(p, tx) == tx.id \in DOMAIN p.tx_id_to_storage_id

\* can_insert_transaction taking no max_gas for zero
NeverZeroMaxGas(tx) == FALSE

\* Pool::can_insert_transaction: tx.max_gas() == 0
IsZeroMaxGas(tx) == tx.max_gas = 0

\* Pool::can_insert_transaction; view_ok = FALSE when latest_view() fails
CanInsertTransaction(p, tx, view_ok) ==
    IF ~view_ok THEN Rejected("Database")
    ELSE IF IsZeroMaxGas(tx) THEN Rejected("ZeroMaxGas")
    ELSE IF IsDuplicateTxId(p, tx) THEN Rejected("DuplicateTxId")
    ELSE IF ~CheckBlacklisting(tx) THEN Rejected("Blacklisted")
    ELSE IF ~CheckBlobDoesNotExist(tx) THEN Rejected("NotInsertedBlobIdAlreadyTaken")
    ELSE IF ~ValidateInputs(p.storage, tx, p.config.utxo_validation)
         THEN Rejected("NotInsertedInputsInvalid")
    ELSE
      LET collisions == FindCollisions(p.collision_manager, tx)
          checked_transaction == CanStoreTransaction(p.storage, tx,
                                                     p.config.max_txs_chain_count)
      IN IF checked_transaction.err # "none" THEN Rejected(checked_transaction.err)
         ELSE IF CollisionIsDependency(collisions, checked_transaction)
         THEN Rejected("NotInsertedCollisionIsDependency")
         ELSE
           LET requirements == CollisionRequirements(p, checked_transaction, collisions)
           IN IF requirements # "none" THEN Rejected(requirements)
              ELSE
                LET can_fit_into_pool == CanFitIntoPool(p, checked_transaction) IN
                IF can_fit_into_pool.err # "none" THEN Rejected(can_fit_into_pool.err)
                ELSE
                  LET space == IF can_fit_into_pool.enough
                               THEN [err |-> "none", transactions_to_remove |-> <<>>]
                               ELSE FindFreeSpace(p, can_fit_into_pool.left,
                                                  checked_transaction)
                  IN IF space.err # "none" THEN Rejected(space.err)
                     ELSE [err |-> "none",
                           checked_transaction |-> checked_transaction,
                           transactions_to_remove |-> space.transactions_to_remove,
                           collisions |-> collisions]

RECURSIVE RemoveEach(_, _)

\* One round of a removal loop: r is what the storage removed; the components
\* are updated for it and the loop goes on
PrependRemoved(removed, rest) == [rest EXCEPT !.removed = removed \o @]

RemovedWith(p, r, indices) ==
    PrependRemoved(r.removed,
        RemoveEach(UpdateComponentsAndCachesOnRemoval(
                       [p EXCEPT !.storage = r.storage], r.removed), indices))

\* The two removal loops of insert: each index has its subtree removed from
\* the storage and the components updated for what was removed
RemoveEach(p, indices) ==
    IF indices = <<>> THEN [pool |-> p, removed |-> <<>>]
    ELSE RemovedWith(p, RemoveTransactionAndDependentsSubtree(p.storage, Head(indices)),
                     Tail(indices))

\* The transactions of a sequence of storage records
Transactions(records) == [i \in 1..Len(records) |-> records[i].transaction]

\* The creation instants of a sequence of storage records
Instants(records) == [i \in 1..Len(records) |-> records[i].creation_instant]

RECURSIVE RemoveVictimsAlone(_, _)

\* One round of a removal loop that takes the record at the index only
RemovedAlone(p, r, indices) ==
    PrependRemoved(<<r.data>>,
        RemoveVictimsAlone(UpdateComponentsAndCachesOnRemoval(
                               [p EXCEPT !.storage = r.storage], <<r.data>>), indices))

\* The first loop of insert removing each chosen transaction without its dependents
RemoveVictimsAlone(p, transactions_to_remove) ==
    IF transactions_to_remove = <<>> THEN [pool |-> p, removed |-> <<>>]
    ELSE IF Head(transactions_to_remove) \notin DOMAIN p.storage
    THEN RemoveVictimsAlone(p, Tail(transactions_to_remove))
    ELSE RemovedAlone(p, Remove(p.storage, Head(transactions_to_remove)),
                      Tail(transactions_to_remove))

\* The first loop of insert updating the components and returning the
\* removed transactions while the storage keeps their records
RemoveVictimsKeepingStored(p, transactions_to_remove) ==
    [pool |-> [RemoveEach(p, transactions_to_remove).pool EXCEPT !.storage = p.storage],
     removed |-> RemoveEach(p, transactions_to_remove).removed]

\* Pool::insert, first loop: the transactions chosen by find_free_space
RemoveVictims(p, transactions_to_remove) == RemoveEach(p, transactions_to_remove)

\* The second loop of insert not extending the returned list
RemoveCollidedUnreported(p, collisions) ==
    [pool |-> RemoveEach(p, SetToSortedSeq(collisions)).pool, removed |-> <<>>]

\* insert without its second loop
KeepCollided(p, collisions) == [pool |-> p, removed |-> <<>>]

\* The second loop of insert removing each collided transaction without its
\* dependents
RemoveCollidedAlone(p, collisions) == RemoveVictimsAlone(p, SetToSortedSeq(collisions))

\* Pool::insert, second loop: the collided transactions
RemoveCollided(p, collisions) == RemoveEach(p, SetToSortedSeq(collisions))

\* Pool::insert: the totals and the indexes once store_transaction has
\* returned stored.index
Account(p, tx, stored) ==
    [pool |-> [p EXCEPT
                 !.storage = stored.storage,
                 !.current_gas = @ + tx.max_gas,
                 !.current_bytes_size = @ + tx.bytes,
                 !.tx_id_to_storage_id = With(@, tx.id, stored.index),
                 !.collision_manager = OnStoredTransaction(@, stored.index, tx)],
     storage_id |-> stored.index]

\* Pool::insert: the transaction is stored and accounted for
StoreAndAccount(p, checked_transaction, creation_instant) ==
    Account(p, checked_transaction.tx,
            StoreTransaction(p.storage, checked_transaction, creation_instant))

\* insert registering every stored transaction with the selection algorithm
RegisterAlways(p, has_dependencies, storage_id) ==
    [p EXCEPT !.selection_algorithm =
        NewExecutableTransaction(@, storage_id, p.storage[storage_id])]

\* Pool::insert: a transaction without dependencies goes to the selection algorithm
RegisterExecutable(p, has_dependencies, storage_id) ==
    IF ~has_dependencies
    THEN [p EXCEPT !.selection_algorithm =
            NewExecutableTransaction(@, storage_id, p.storage[storage_id])]
    ELSE p

\* Pool::insert: the stored transaction is registered as RegisterExecutable says
RegisterStored(stored, has_dependencies) ==
    RegisterExecutable(stored.pool, has_dependencies, stored.storage_id)

\* Pool::insert: the end of insert, with what the two loops removed
StoreAndRegister(p, can, removed_transactions, creation_instant) ==
    [pool |-> RegisterStored(StoreAndAccount(p, can.checked_transaction, creation_instant),
                             can.checked_transaction.all_dependencies # {}),
     err |-> "none",
     removed |-> Transactions(removed_transactions),
     transactions_to_remove |-> can.transactions_to_remove,
     collisions |-> can.collisions]

\* Pool::insert: the second loop, after the first loop gave victims
AfterVictims(victims, collided, can, creation_instant) ==
    StoreAndRegister(collided.pool, can, victims.removed \o collided.removed,
                     creation_instant)

\* Pool::insert: the second loop runs on the pool the first loop left
CollidedAfter(victims, can) == RemoveCollided(victims.pool, can.collisions)

\* Pool::insert: the two loops in their order
RemoveThenStore(victims, can, creation_instant) ==
    AfterVictims(victims, CollidedAfter(victims, can), can, creation_instant)

\* Pool::insert once can_insert_transaction has accepted the transaction
InsertChecked(p, can, creation_instant) ==
    RemoveThenStore(RemoveVictims(p, can.transactions_to_remove), can, creation_instant)

\* Pool::insert: the `?` on can_insert_transaction, then the rest of insert
InsertIfAccepted(p, can, creation_instant) ==
    IF can.err # "none"
    THEN [pool |-> p, err |-> can.err, removed |-> <<>>,
          transactions_to_remove |-> <<>>, collisions |-> {}]
    ELSE InsertChecked(p, can, creation_instant)

\* The gas and the size of tx added to the totals
Counted(p, tx) ==
    [p EXCEPT !.current_gas = @ + tx.max_gas, !.current_bytes_size = @ + tx.bytes]

\* insert when the totals were increased before can_insert_transaction ran
InsertCountedFirst(p, counted, can, creation_instant) ==
    IF can.err # "none"
    THEN [pool |-> counted, err |-> can.err, removed |-> <<>>,
          transactions_to_remove |-> <<>>, collisions |-> {}]
    ELSE InsertChecked(p, can, creation_instant)

\* insert accounting for the transaction before can_insert_transaction has
\* accepted it
PoolInsertAccountingFirst(p, tx, creation_instant, view_ok) ==
    InsertCountedFirst(p, Counted(p, tx), CanInsertTransaction(p, tx, view_ok),
                       creation_instant)

\* Pool::insert
PoolInsert(p, tx, creation_instant, view_ok) ==
    InsertIfAccepted(p, CanInsertTransaction(p, tx, view_ok), creation_instant)

\* Constraints that allow twice the gas and twice the size of a block
BlockConstraintsDoubled(p) ==
    [max_gas |-> 2 * p.config.max_block_gas, maximum_block_size |-> 2 * MaxBlockSize,
     maximum_txs |-> MaxBlockTxs]

\* The constraints extract_transactions_for_block gives to gather_best_txs
BlockConstraints(p) ==
    [max_gas |-> p.config.max_block_gas, maximum_block_size |-> MaxBlockSize,
     maximum_txs |-> MaxBlockTxs]

\* extract_transactions_for_block: the components are updated for every
\* record gather_best_txs returned, and the transactions are returned
UpdateOnExtraction(p, g) ==
    IF g.err # "none" THEN [pool |-> p, err |-> g.err, removed |-> <<>>, instants |-> <<>>]
    ELSE [pool |-> UpdateComponentsAndCachesOnRemoval(
                     [p EXCEPT !.storage = g.storage,
                               !.selection_algorithm = g.selection], g.result),
          err |-> "none", removed |-> Transactions(g.result),
          instants |-> Instants(g.result)]

\* The returned list cut to maximum_txs
Truncated(r) ==
    [r EXCEPT !.removed = SubSeq(@, 1, IF Len(@) < MaxBlockTxs THEN Len(@)
                                       ELSE MaxBlockTxs)]

\* extract_transactions_for_block cutting the returned list to maximum_txs
ExtractTruncated(p, gas_price) ==
    Truncated(UpdateOnExtraction(p,
        GatherBestTxs(p.selection_algorithm, p.storage, BlockConstraints(p), gas_price)))

\* Pool::extract_transactions_for_block
ExtractTransactionsForBlock(p, gas_price) ==
    UpdateOnExtraction(p,
        GatherBestTxs(p.selection_algorithm, p.storage, BlockConstraints(p), gas_price))

\* Pool::find_one: the transaction as a sequence of one, <<>> for None
FindOne(p, tx_id) ==
    IF tx_id \notin DOMAIN p.tx_id_to_storage_id THEN <<>>
    ELSE IF p.tx_id_to_storage_id[tx_id] \notin DOMAIN p.storage THEN <<>>
    ELSE <<p.storage[p.tx_id_to_storage_id[tx_id]].transaction>>

\* The transactions of the removed records are returned
ReturnTransactions(r) ==
    [pool |-> r.pool, err |-> "none", removed |-> Transactions(r.removed)]

\* Pool::remove_transaction (§4.1): the named transactions that are in the
\* pool are removed with their subtrees
RemoveTransaction(p, tx_ids) ==
    ReturnTransactions(RemoveEach(p, SetToSortedSeq(
        {p.tx_id_to_storage_id[id] : id \in tx_ids \cap DOMAIN p.tx_id_to_storage_id})))

----------------------------------------------------------------------------
(* The state machine *)

\* The pool as a value, and the transactions it holds
ThePool ==
    [config |-> config, storage |-> storage, tx_id_to_storage_id |-> tx_id_to_storage_id,
     collision_manager |-> collision_manager,
     selection_algorithm |-> selection_algorithm,
     current_gas |-> current_gas, current_bytes_size |-> current_bytes_size]

PoolTxs == {storage[i].transaction : i \in DOMAIN storage}

SetPool(p) ==
    /\ storage' = p.storage
    /\ tx_id_to_storage_id' = p.tx_id_to_storage_id
    /\ collision_manager' = p.collision_manager
    /\ selection_algorithm' = p.selection_algorithm
    /\ current_gas' = p.current_gas
    /\ current_bytes_size' = p.current_bytes_size

poolVars == <<storage, tx_id_to_storage_id, collision_manager, selection_algorithm,
              current_gas, current_bytes_size>>

\* The outcome of a call: the error, the returned transactions, and the
\* transactions whose removal was asked for or decided
TxIdsAt(st, indices) == {st[i].transaction.id : i \in indices \cap DOMAIN st}

NoCall == [op |-> "none", err |-> "none", removed |-> <<>>,
           victims |-> {}, colliders |-> {}, named |-> {}, instants |-> <<>>]

\* A call returns r: the pool is as the call left it and the outcome is kept,
\* with the creation instants of the records an extraction took
Returns(op, r, victims, colliders, named, instants) ==
    /\ SetPool(r.pool)
    /\ last' = [op |-> op, err |-> r.err, removed |-> r.removed,
                victims |-> victims, colliders |-> colliders, named |-> named,
                instants |-> instants]

InsertReturns(r) ==
    Returns("insert", r, TxIdsAt(storage, Range(r.transactions_to_remove)),
            TxIdsAt(storage, r.collisions), {}, <<>>)

ExtractReturns(r) ==
    /\ Returns("extract", r, {}, {}, {}, r.instants)
    /\ drained' = IF phase = "drain" THEN drained \o r.removed ELSE drained

\* The pool on its own: no service task is built around it
ServiceNotBuilt ==
    /\ current_height = 0
    /\ time_txs_submitted = <<>>
    /\ tasks = <<>>
    /\ streams = <<>>
    /\ chain = <<>>
    /\ should_continue = TRUE

Init ==
    /\ config \in Configs
    /\ storage = NewPool(config).storage
    /\ tx_id_to_storage_id = NewPool(config).tx_id_to_storage_id
    /\ collision_manager = NewPool(config).collision_manager
    /\ selection_algorithm = NewPool(config).selection_algorithm
    /\ current_gas = NewPool(config).current_gas
    /\ current_bytes_size = NewPool(config).current_bytes_size
    /\ now = 0
    /\ pending = <<>>
    /\ last = NoCall
    /\ phase = "fill"
    /\ drain_start = {}
    /\ drained = <<>>
    /\ ServiceNotBuilt

\* A transaction arrives for insertion
Submit ==
    /\ phase = "fill"
    /\ pending = <<>>
    /\ \E tx \in Candidates : pending' = <<tx>>
    /\ last' = NoCall
    /\ UNCHANGED <<config, poolVars, now, phase, drain_start, drained>>
    /\ UNCHANGED serviceVars

\* Pool::insert on the pending transaction
Insert ==
    /\ pending # <<>>
    /\ \E view_ok \in BOOLEAN :
         InsertReturns(PoolInsert(ThePool, pending[1], now, view_ok))
    /\ pending' = <<>>
    /\ UNCHANGED <<config, now, phase, drain_start, drained>>
    /\ UNCHANGED serviceVars

\* Pool::remove_transaction for the transactions of an imported block
RemoveTx ==
    /\ phase = "fill"
    /\ pending = <<>>
    /\ \E tx_ids \in SUBSET TxIds \ {{}} :
         Returns("remove", RemoveTransaction(ThePool, tx_ids), {}, {}, tx_ids, <<>>)
    /\ UNCHANGED <<config, now, pending, phase, drain_start, drained>>
    /\ UNCHANGED serviceVars

\* Pool::extract_transactions_for_block at some gas price
Extract ==
    /\ pending = <<>>
    /\ \E gas_price \in {NoGasPrice} \cup 1..MaxGasPrice :
         ExtractReturns(ExtractTransactionsForBlock(ThePool, gas_price))
    /\ UNCHANGED <<config, now, pending, phase, drain_start>>
    /\ UNCHANGED serviceVars

\* The clock advances
Tick ==
    /\ now < MaxTime
    /\ now' = now + 1
    /\ UNCHANGED <<config, poolVars, pending, last, phase, drain_start, drained>>
    /\ UNCHANGED serviceVars

\* From here on the pool is only extracted from
StartDrain ==
    /\ phase = "fill"
    /\ pending = <<>>
    /\ DOMAIN storage # {}
    /\ phase' = "drain"
    /\ drain_start' = PoolTxs
    /\ drained' = <<>>
    /\ last' = NoCall
    /\ UNCHANGED <<config, poolVars, now, pending>>
    /\ UNCHANGED serviceVars

EndDrain ==
    /\ phase = "drain"
    /\ phase' = "fill"
    /\ drain_start' = {}
    /\ drained' = <<>>
    /\ last' = NoCall
    /\ UNCHANGED <<config, poolVars, now, pending>>
    /\ UNCHANGED serviceVars

Next ==
    \/ Submit
    \/ Insert
    \/ RemoveTx
    \/ Extract
    \/ StartDrain
    \/ EndDrain

\* All transactions are created within one reading of the clock
Spec == Init /\ [][Next]_vars

NextClock ==
    \/ Next
    \/ Tick

\* The clock advances between calls
SpecClock == Init /\ [][NextClock]_vars

----------------------------------------------------------------------------
(* A pool of two executable transactions that share a dependent *)

WideTxIds == 4      \* the transaction ids of this pool are 1..WideTxIds
WideMaxGas == 3     \* config.pool_limits.max_gas, and two more in a second configuration
WideGas == 4        \* max_gas, and tip, of the largest candidate

\* The configurations of this pool: the count limit binding or not, the gas
\* limit binding or not
ConfigsWide ==
    {[max_txs |-> n, max_gas |-> g, max_bytes_size |-> 3 * WideTxIds,
      max_block_gas |-> MaxBlockGas, max_txs_chain_count |-> MaxTxsChainCount,
      utxo_validation |-> TRUE] :
        n \in {WideTxIds - 1, WideTxIds}, g \in {WideMaxGas, WideMaxGas + 2}}

\* Transactions 1 and 2 are executable, transaction 2 with or without a tip,
\* transaction 3 spends an output of 1, or one of 1 and one of 2, with a tip
\* of one or three, and transaction 4 spends an output of 2 or is executable
\* and of any size up to WideGas
CandidatesWide ==
         {Tx(1, 1, g, {<<Confirmed, 0>>}, {}, 0, 0) : g \in 1..2}
    \cup {Tx(2, t, 1, {}, {1}, 0, 0) : t \in 0..1}
    \cup {Tx(3, t, 1, i, {}, 0, 0) : t \in {1, 3}, i \in {{<<1, 0>>}, {<<1, 0>>, <<2, 0>>}}}
    \cup {Tx(WideTxIds, 1, 1, {<<2, 0>>}, {}, 0, 0)}
    \cup {Tx(WideTxIds, e, e, {}, {}, 1, 0) : e \in 1..WideGas}

InitWide ==
    /\ config \in ConfigsWide
    /\ storage = NewPool(config).storage
    /\ tx_id_to_storage_id = NewPool(config).tx_id_to_storage_id
    /\ collision_manager = NewPool(config).collision_manager
    /\ selection_algorithm = NewPool(config).selection_algorithm
    /\ current_gas = NewPool(config).current_gas
    /\ current_bytes_size = NewPool(config).current_bytes_size
    /\ now = 0
    /\ pending = <<>>
    /\ last = NoCall
    /\ phase = "fill"
    /\ drain_start = {}
    /\ drained = <<>>
    /\ ServiceNotBuilt

\* One of these transactions arrives for insertion
SubmitWide ==
    /\ pending = <<>>
    /\ \E tx \in CandidatesWide : pending' = <<tx>>
    /\ last' = NoCall
    /\ UNCHANGED <<config, poolVars, now, phase, drain_start, drained>>
    /\ UNCHANGED serviceVars

NextWide ==
    \/ SubmitWide
    \/ Insert
    \/ RemoveTx
    \/ Extract

SpecWide == InitWide /\ [][NextWide]_vars

----------------------------------------------------------------------------
(* The service task and the shared state around the pool: service.rs.
   SharedState::insert, prune_old_transactions and new_peer_subscribed, and
   the locking of readers, follow §4.5 and §5 of the specification. *)

ServiceTxIds == 2   \* the transaction ids of this pool are 1..ServiceTxIds
MaxHeight == 2      \* blocks committed
MaxGossip == 1      \* messages waiting in the gossip stream
MaxPeers == 1       \* subscriptions waiting in the new-peer stream
MaxQueue == 1       \* entries of time_txs_submitted when a transaction arrives

ConfigService ==
    [max_txs |-> ServiceTxIds, max_gas |-> 2 * ServiceTxIds,
     max_bytes_size |-> 3 * ServiceTxIds, max_block_gas |-> MaxBlockGas,
     max_txs_chain_count |-> MaxTxsChainCount, utxo_validation |-> TRUE]

\* Transaction 1 spends a confirmed coin, the last one an output of 1
CandidatesService ==
    {Tx(1, 1, 1, {<<Confirmed, 0>>}, {}, 0, 0),
     Tx(ServiceTxIds, 1, 1, {<<1, 0>>}, {}, 0, 0)}

\* The service task, and a thread that uses SharedState beside it: a
\* submitter or a reader
Threads == {"submitter", "reader"}
Tasks == DOMAIN tasks

\* The fixed order of lock acquisition
LockRank(lock) ==
    CASE lock = "pool" -> 1
      [] lock = "current_height" -> 2
      [] lock = "time_txs_submitted" -> 3

\* What a task runs is a sequence of steps: RwLock::write, RwLock::read, the
\* drop of a guard, and a call made under a guard that is dropped when the
\* call is done ("none": no guard is dropped)
Step(op, lock) == [op |-> op, lock |-> lock]
Write(lock) == Step("write", lock)
Read(lock) == Step("read", lock)
Unlock(lock) == Step("unlock", lock)
Call(op, lock) == Step(op, lock)

\* manage_imported_block setting the height before it removes the
\* transactions
ManageImportedBlockHeightFirst ==
    <<Write("current_height"), Call("set_height", "current_height"),
      Write("pool"), Call("remove_transaction", "pool")>>

\* manage_imported_block taking the pool lock while it holds current_height
ManageImportedBlockHoldingHeight ==
    <<Write("current_height"), Call("set_height", "none"),
      Write("pool"), Call("remove_transaction", "pool"),
      Unlock("current_height")>>

\* Task::manage_imported_block
ManageImportedBlock ==
    <<Write("pool"), Call("remove_transaction", "pool"),
      Write("current_height"), Call("set_height", "current_height")>>

\* SharedState::insert, called by manage_tx_from_p2p and by submitters
InsertOfSharedState ==
    <<Write("pool"), Call("insert", "pool"),
      Write("time_txs_submitted"), Call("push", "time_txs_submitted")>>

\* SharedState::prune_old_transactions, called by manage_prune_old_transactions
PruneOldTransactions ==
    <<Write("pool"), Write("time_txs_submitted"),
      Call("prune", "time_txs_submitted"), Unlock("pool")>>

\* SharedState::new_peer_subscribed, called by manage_new_peer_subscribed
NewPeerSubscribed == <<Call("notify", "none")>>

\* A read-only inspection of the pool and of the height
Inspection ==
    <<Read("pool"), Read("current_height"), Unlock("current_height"), Unlock("pool")>>

\* A task that runs nothing
Idle ==
    [program |-> <<>>, held |-> {}, tx |-> <<>>, height |-> 0, stored |-> FALSE,
     err |-> "none"]

\* The guards of a task without those of the lock
Dropped(held, lock) == {h \in held : h[1] # lock}

\* The task after the step at the head of its program
After(task) ==
    IF Len(task.program) = 1
    THEN [Idle EXCEPT !.held = Dropped(task.held, Head(task.program).lock)]
    ELSE [task EXCEPT !.program = Tail(@),
                      !.held = Dropped(@, Head(task.program).lock)]

\* A handler whose failed call does not end it: the error is noted and the
\* handler goes on with its next step
GoesOnAfter(task, err) == [After(task) EXCEPT !.err = err]

\* The `?` on a failed call: the handler returns the error, its guards are
\* dropped and the rest of it does not run; the block it was given is kept
\* for reference
ReturnsError(task, err) == [Idle EXCEPT !.err = err, !.height = task.height]

\* The task t is at a step op
Runs(t, op) == tasks[t].program # <<>> /\ Head(tasks[t].program).op = op

\* RwLock: the tasks holding a guard of the lock, and whether a guard of
\* this kind can be had now
Holders(lock) == {t \in Tasks : \E h \in tasks[t].held : h[1] = lock}
Writers(lock) == {t \in Tasks : <<lock, "write">> \in tasks[t].held}
Available(op, lock) == IF op = "write" THEN Holders(lock) = {} ELSE Writers(lock) = {}

\* The ids of the transactions of the committed blocks
Committed == UNION Range(chain)

\* The branches of the select of Task::run
Branches == <<"shutdown", "ttl", "block", "p2p", "peer">>

\* The branches whose future is ready: a signal, a tick, an item of a stream
\* or its end
ReadyBranches ==
    {b \in Range(Branches) :
        \/ b = "shutdown" /\ streams.stop
        \/ b = "ttl" /\ streams.tick
        \/ b = "block" /\ (streams.blocks # <<>> \/ streams.ended)
        \/ b = "p2p" /\ (streams.p2p # <<>> \/ streams.ended)
        \/ b = "peer" /\ (streams.peers > 0 \/ streams.ended)}

\* A select that runs the branch of every ready future
SelectEveryReady(ready) == IF ready = {} THEN {} ELSE {ready}

\* tokio::select!: the branch of one ready future runs, the other futures
\* are dropped
SelectBranches(ready) == {{b} : b \in ready}

\* The branch has an event to handle: the stream gave Some(..), and the
\* gossip message carries a transaction
HasEvent(b) ==
    CASE b = "shutdown" -> TRUE
      [] b = "ttl" -> TRUE
      [] b = "block" -> streams.blocks # <<>>
      [] b = "p2p" -> streams.p2p # <<>> /\ Head(streams.p2p) # <<>>
      [] b = "peer" -> streams.peers > 0

\* should_continue as the branch sets it
Continues(b) == b # "shutdown" /\ HasEvent(b)

\* The handler the branch calls
Handler(b) ==
    IF ~HasEvent(b) THEN <<>>
    ELSE CASE b = "shutdown" -> <<>>
           [] b = "ttl" -> PruneOldTransactions
           [] b = "block" -> ManageImportedBlock
           [] b = "p2p" -> InsertOfSharedState
           [] b = "peer" -> NewPeerSubscribed

RECURSIVE Handlers(_)
\* The handlers of the branches of the sequence, one after the other
Handlers(fired) ==
    IF fired = <<>> THEN <<>> ELSE Handler(Head(fired)) \o Handlers(Tail(fired))

\* The streams once the futures of the branches B have given their items
Taken(B) ==
    [streams EXCEPT
       !.tick = IF "ttl" \in B THEN FALSE ELSE @,
       !.blocks = IF "block" \in B /\ @ # <<>> THEN Tail(@) ELSE @,
       !.p2p = IF "p2p" \in B /\ @ # <<>> THEN Tail(@) ELSE @,
       !.peers = IF "peer" \in B /\ @ > 0 THEN @ - 1 ELSE @]

\* The service task as the branches B leave it: their handlers to run, with
\* the block and the transaction they were given
Handling(B, fired) ==
    [program |-> Handlers(fired), held |-> {},
     tx |-> IF "p2p" \in B /\ HasEvent("p2p") THEN Head(streams.p2p) ELSE <<>>,
     height |-> IF "block" \in B /\ HasEvent("block") THEN Head(streams.blocks) ELSE 0,
     stored |-> FALSE, err |-> "none"]

InitService ==
    /\ config = ConfigService
    /\ storage = NewPool(config).storage
    /\ tx_id_to_storage_id = NewPool(config).tx_id_to_storage_id
    /\ collision_manager = NewPool(config).collision_manager
    /\ selection_algorithm = NewPool(config).selection_algorithm
    /\ current_gas = NewPool(config).current_gas
    /\ current_bytes_size = NewPool(config).current_bytes_size
    /\ now = 0
    /\ pending = <<>>
    /\ last = NoCall
    /\ phase = "fill"
    /\ drain_start = {}
    /\ drained = <<>>
    /\ current_height = 0
    /\ time_txs_submitted = <<>>
    /\ \E thread \in Threads : tasks = [t \in {"service", thread} |-> Idle]
    /\ streams = [blocks |-> <<>>, p2p |-> <<>>, peers |-> 0,
                  tick |-> FALSE, stop |-> FALSE, ended |-> FALSE]
    /\ chain = <<>>
    /\ should_continue = TRUE

\* What no step of the service changes
callVars == <<config, now, pending, last, phase, drain_start, drained>>

\* A block is committed and its import is announced to the pool
BlockCommitted ==
    /\ Len(chain) < MaxHeight
    /\ ~streams.ended
    /\ \E ids \in SUBSET (1..ServiceTxIds) \ {{}} : chain' = Append(chain, ids)
    /\ streams' = [streams EXCEPT !.blocks = Append(@, Len(chain) + 1)]
    /\ UNCHANGED <<callVars, poolVars, current_height, time_txs_submitted, tasks, should_continue>>

\* A gossip message arrives, with a transaction or without
Gossiped ==
    /\ Len(streams.p2p) < MaxGossip
    /\ Len(time_txs_submitted) < MaxQueue
    /\ ~streams.ended
    /\ \E data \in {<<tx>> : tx \in CandidatesService} \cup {<<>>} :
         streams' = [streams EXCEPT !.p2p = Append(@, data)]
    /\ UNCHANGED <<callVars, poolVars, current_height, time_txs_submitted, tasks, chain,
                   should_continue>>

\* A peer subscribes
PeerSubscribed ==
    /\ streams.peers < MaxPeers
    /\ ~streams.ended
    /\ streams' = [streams EXCEPT !.peers = @ + 1]
    /\ UNCHANGED <<callVars, poolVars, current_height, time_txs_submitted, tasks, chain,
                   should_continue>>

\* The TTL timer fires
TimerFired ==
    /\ ~streams.tick
    /\ streams' = [streams EXCEPT !.tick = TRUE]
    /\ UNCHANGED <<callVars, poolVars, current_height, time_txs_submitted, tasks, chain,
                   should_continue>>

\* The service is asked to stop
StopRequested ==
    /\ ~streams.stop
    /\ streams' = [streams EXCEPT !.stop = TRUE]
    /\ UNCHANGED <<callVars, poolVars, current_height, time_txs_submitted, tasks, chain,
                   should_continue>>

\* The senders of the streams are dropped as the node stops
StreamsEnded ==
    /\ streams.stop
    /\ ~streams.ended
    /\ streams' = [streams EXCEPT !.ended = TRUE]
    /\ UNCHANGED <<callVars, poolVars, current_height, time_txs_submitted, tasks, chain,
                   should_continue>>

\* Task::run: one call, up to the handler of the branch that fires
Run ==
    /\ tasks["service"].program = <<>>
    /\ should_continue
    /\ \E B \in SelectBranches(ReadyBranches) :
         /\ should_continue' = \A b \in B : Continues(b)
         /\ streams' = Taken(B)
         /\ tasks' = [tasks EXCEPT !["service"] =
                         Handling(B, SelectSeq(Branches, LAMBDA b : b \in B))]
    /\ UNCHANGED <<callVars, poolVars, current_height, time_txs_submitted, chain>>

\* Another thread calls SharedState::insert
SubmitterStarts ==
    /\ "submitter" \in Tasks
    /\ tasks["submitter"].program = <<>>
    /\ Len(time_txs_submitted) < MaxQueue
    /\ \E tx \in CandidatesService :
         tasks' = [tasks EXCEPT !["submitter"] =
                      [Idle EXCEPT !.program = InsertOfSharedState, !.tx = <<tx>>]]
    /\ UNCHANGED <<callVars, poolVars, current_height, time_txs_submitted, streams, chain,
                   should_continue>>

\* Another thread inspects the pool
ReaderStarts ==
    /\ "reader" \in Tasks
    /\ tasks["reader"].program = <<>>
    /\ tasks' = [tasks EXCEPT !["reader"] = [Idle EXCEPT !.program = Inspection]]
    /\ UNCHANGED <<callVars, poolVars, current_height, time_txs_submitted, streams, chain,
                   should_continue>>

\* RwLock::write or RwLock::read returns the guard
Acquire(t) ==
    /\ tasks[t].program # <<>>
    /\ Head(tasks[t].program).op \in {"write", "read"}
    /\ Available(Head(tasks[t].program).op, Head(tasks[t].program).lock)
    /\ tasks' = [tasks EXCEPT ![t] =
          [@ EXCEPT !.program = Tail(@),
                    !.held = @ \cup {<<Head(tasks[t].program).lock,
                                       Head(tasks[t].program).op>>}]]
    /\ UNCHANGED <<callVars, poolVars, current_height, time_txs_submitted, streams, chain,
                   should_continue>>

\* A guard is dropped
Release(t) ==
    /\ Runs(t, "unlock")
    /\ tasks' = [tasks EXCEPT ![t] = After(@)]
    /\ UNCHANGED <<callVars, poolVars, current_height, time_txs_submitted, streams, chain,
                   should_continue>>

\* Pool::remove_transaction as manage_imported_block sees it: it returns the
\* removed transactions, or an error after it has removed some of the named
\* transactions or none
RemoveTransactionOutcomes(p, tx_ids) ==
         {RemoveTransaction(p, tx_ids)}
    \cup {[RemoveTransaction(p, done) EXCEPT !.err = "RemoveTransactionFailed"] :
              done \in SUBSET tx_ids \ {tx_ids}}

\* manage_imported_block: tx_pool.remove_transaction(ids of the block)?
RemoveBlockTransactions ==
    /\ Runs("service", "remove_transaction")
    /\ \E r \in RemoveTransactionOutcomes(ThePool, chain[tasks["service"].height]) :
         /\ SetPool(r.pool)
         /\ tasks' = [tasks EXCEPT !["service"] =
                         IF r.err = "none" THEN After(@) ELSE ReturnsError(@, r.err)]
    /\ UNCHANGED <<callVars, current_height, time_txs_submitted, streams, chain, should_continue>>

\* manage_imported_block: *block_height = new_height
SetCurrentHeight ==
    /\ Runs("service", "set_height")
    /\ current_height' = tasks["service"].height
    /\ tasks' = [tasks EXCEPT !["service"] = After(@)]
    /\ UNCHANGED <<callVars, poolVars, time_txs_submitted, streams, chain, should_continue>>

\* Pool::insert as SharedState::insert calls it; the inputs of a
\* transaction of a committed block are spent in the persistent view
InsertCommittedOrNot(p, tx) ==
    IF tx.id \in Committed
    THEN [pool |-> p, err |-> "NotInsertedInputsInvalid"]
    ELSE PoolInsert(p, tx, now, TRUE)

InsertTransaction(t) ==
    /\ Runs(t, "insert")
    /\ SetPool(InsertCommittedOrNot(ThePool, tasks[t].tx[1]).pool)
    /\ tasks' = [tasks EXCEPT ![t] =
          After([@ EXCEPT !.stored =
                    InsertCommittedOrNot(ThePool, tasks[t].tx[1]).err = "none"])]
    /\ UNCHANGED <<callVars, current_height, time_txs_submitted, streams, chain, should_continue>>

\* SharedState::insert: the time of submission is noted for the TTL
PushSubmitted(t) ==
    /\ Runs(t, "push")
    /\ time_txs_submitted' = IF tasks[t].stored
                             THEN Append(time_txs_submitted, tasks[t].tx[1].id)
                             ELSE time_txs_submitted
    /\ tasks' = [tasks EXCEPT ![t] = After(@)]
    /\ UNCHANGED <<callVars, poolVars, current_height, streams, chain, should_continue>>

\* SharedState::prune_old_transactions: the entries older than the TTL, at
\* the front of the queue, are taken off and their transactions removed
PruneExpired ==
    /\ Runs("service", "prune")
    /\ \E k \in 0..Len(time_txs_submitted) :
         /\ time_txs_submitted' = SubSeq(time_txs_submitted, k + 1, Len(time_txs_submitted))
         /\ SetPool(RemoveTransaction(ThePool,
                       {time_txs_submitted[i] : i \in 1..k}).pool)
    /\ tasks' = [tasks EXCEPT !["service"] = After(@)]
    /\ UNCHANGED <<callVars, current_height, streams, chain, should_continue>>

\* SharedState::new_peer_subscribed
NotifyPeer ==
    /\ Runs("service", "notify")
    /\ tasks' = [tasks EXCEPT !["service"] = After(@)]
    /\ UNCHANGED <<callVars, poolVars, current_height, time_txs_submitted, streams, chain,
                   should_continue>>

NextService ==
    \/ BlockCommitted
    \/ Gossiped
    \/ PeerSubscribed
    \/ TimerFired
    \/ StopRequested
    \/ StreamsEnded
    \/ Run
    \/ SubmitterStarts
    \/ ReaderStarts
    \/ \E t \in Tasks : Acquire(t)
    \/ \E t \in Tasks : Release(t)
    \/ RemoveBlockTransactions
    \/ SetCurrentHeight
    \/ \E t \in Tasks : InsertTransaction(t)
    \/ \E t \in Tasks : PushSubmitted(t)
    \/ PruneExpired
    \/ NotifyPeer

SpecService == InitService /\ [][NextService]_vars

----------------------------------------------------------------------------
(* Properties *)

\* The steps that are a call of insert, of remove_transaction, of
\* extract_transactions_for_block
InsertStep == pending # <<>> /\ pending' = <<>>
RemoveStep == last'.op = "remove" /\ pending = <<>> /\ now' = now
ExtractStep == last'.op = "extract" /\ pending = <<>> /\ now' = now /\ phase' = phase

\* The stored transactions that are, or depend through the graph on, one of roots
Subtree(st, roots) == {i \in DOMAIN st : UpwardClosure(st, {i}) \cap roots # {}}

IndicesOf(ids) == {i \in DOMAIN storage : storage[i].transaction.id \in ids}
SubtreeTxs(ids) == {storage[i].transaction : i \in Subtree(storage, IndicesOf(ids))}

\* The stored transactions that claim a resource tx claims
Colliders(tx) ==
    {i \in DOMAIN storage : Claims(storage[i].transaction) \cap Claims(tx) # {}}

\* C1: current_gas is the sum of the max_gas of the stored transactions,
\* current_bytes_size the sum of their sizes, and the id index has as many
\* entries as the storage has transactions
C1_AggregatesMatchContents ==
    /\ current_gas = SumOver(DOMAIN storage,
                             [i \in DOMAIN storage |-> storage[i].transaction.max_gas])
    /\ current_bytes_size = SumOver(DOMAIN storage,
                                    [i \in DOMAIN storage |-> storage[i].transaction.bytes])
    /\ Cardinality(DOMAIN tx_id_to_storage_id) = Cardinality(DOMAIN storage)

\* An insertion has displaced transactions and others are left
C1_Witness ==
    /\ last.op = "insert" /\ last.err = "none" /\ last.removed # <<>>
    /\ Cardinality(DOMAIN storage) >= 2 /\ current_gas >= 2

\* C2: an insert that returns an error leaves the storage, both totals, the
\* id index, the collision index and the selection index as they were
C2_FailedInsertChangesNothing ==
    [][(InsertStep /\ last'.err # "none") => UNCHANGED poolVars]_vars

\* An insert into a full pool has failed in find_free_space or can_fit_into_pool
C2_Witness ==
    /\ last.op = "insert" /\ last.err = "NotInsertedLimitHit"
    /\ DOMAIN storage # {}

\* C3: on success the returned list holds exactly the transactions that were
\* in the pool before and are not after, and the pool afterwards is the pool
\* before, minus the returned ones, plus the inserted transaction
C3_InsertReturnsTheDisplaced ==
    [][(InsertStep /\ last'.err = "none") =>
          /\ Range(last'.removed) = PoolTxs \ PoolTxs'
          /\ PoolTxs' = (PoolTxs \ Range(last'.removed)) \cup {pending[1]}]_vars

\* An insert has displaced a collider and a transaction chosen for space
C3_Witness ==
    /\ last.op = "insert" /\ last.err = "none"
    /\ last.colliders # {} /\ last.victims # {}
    /\ Len(last.removed) >= 2

\* C4: the selection index holds one entry for every stored transaction
\* without a parent in the pool, under the key of that transaction, and
\* nothing else
C4_SelectionIsTheExecutable ==
    /\ {e.id : e \in selection_algorithm} = {i \in DOMAIN storage : storage[i].parents = {}}
    /\ \A e \in selection_algorithm :
         e.id \in DOMAIN storage /\ e.key = Key(storage[e.id])
    /\ Cardinality(selection_algorithm) =
         Cardinality({i \in DOMAIN storage : storage[i].parents = {}})

\* An extraction has taken a parent and its child, left behind, is now in
\* the selection index
C4_Witness ==
    /\ last.op = "extract" /\ last.err = "none"
    /\ \E e \in selection_algorithm : \E r \in Range(last.removed) :
         \E u \in storage[e.id].transaction.inputs : u[1] = r.id

\* C5: a displacement or a remove_transaction leaves no transaction whose
\* parent it removed, an extraction takes a transaction only after all its
\* parents, and every parent link of a stored transaction leads to a stored
\* transaction
C5_NoOrphans ==
    [][/\ ((InsertStep /\ last'.err = "none") \/ RemoveStep) =>
             \A i \in DOMAIN storage \cap DOMAIN storage' :
                 storage[i].parents \subseteq DOMAIN storage'
       /\ ExtractStep =>
             \A k \in 1..Len(last'.removed) :
                 \A i \in IndicesOf({last'.removed[k].id}) :
                     \A q \in storage[i].parents :
                         \E j \in 1..(k - 1) :
                             last'.removed[j] = storage[q].transaction
       /\ \A i \in DOMAIN storage' : storage'[i].parents \subseteq DOMAIN storage']_vars

\* An insert has displaced a collider together with a transaction that
\* depended on it
C5_Witness ==
    /\ last.op = "insert" /\ last.err = "none"
    /\ \E r, t \in Range(last.removed) :
         /\ r.id \in last.colliders
         /\ \E u \in t.inputs : u[1] = r.id

\* C6: no two transactions of the pool claim the same coin, message,
\* contract creation or blob
C6_NoSharedResource ==
    \A i, j \in DOMAIN storage :
        i # j => Claims(storage[i].transaction) \cap Claims(storage[j].transaction) = {}

\* An insert has taken the place of a collider next to another transaction
C6_Witness ==
    /\ last.op = "insert" /\ last.err = "none" /\ last.colliders # {}
    /\ last.victims = {}
    /\ Cardinality(DOMAIN storage) >= 2

\* C7: what a successful insert removes is the union of the subtrees of its
\* victims and colliders, what remove_transaction removes is the union of the
\* subtrees of the named transactions that are in the pool, and every other
\* transaction stays
C7_RemovalIsTheSubtree ==
    [][/\ (InsertStep /\ last'.err = "none") =>
             LET gone == SubtreeTxs(last'.victims \cup last'.colliders) IN
             /\ Range(last'.removed) = gone
             /\ PoolTxs' = (PoolTxs \ gone) \cup {pending[1]}
       /\ RemoveStep =>
             LET gone == SubtreeTxs(last'.named) IN
             /\ Range(last'.removed) = gone
             /\ PoolTxs' = PoolTxs \ gone]_vars

\* remove_transaction has named a parent only and its child went with it,
\* while another transaction stayed
C7_Witness ==
    /\ last.op = "remove" /\ Cardinality(last.named) = 1
    /\ Len(last.removed) = 2
    /\ DOMAIN storage # {}

\* The tip and the gas of a stored transaction and of all that depend on it
SubtreeTip(c) ==
    SumOver(Subtree(storage, {c}),
            [i \in Subtree(storage, {c}) |-> storage[i].transaction.tip])
SubtreeGas(c) ==
    SumOver(Subtree(storage, {c}),
            [i \in Subtree(storage, {c}) |-> storage[i].transaction.max_gas])

\* tip / max_gas of tx is strictly greater than the ratio of the subtree of c
Outbids(tx, c) == tx.tip * SubtreeGas(c) > SubtreeTip(c) * tx.max_gas

\* The errors of the steps of can_insert_transaction that come before the
\* collision rule
EarlierErrors ==
    {"Database", "ZeroMaxGas", "DuplicateTxId", "Blacklisted",
     "NotInsertedBlobIdAlreadyTaken", "NotInsertedInputsInvalid", "ChainTooLong",
     "NotInsertedCollisionIsDependency"}

\* C8: a candidate that collides is inserted only if its ratio is strictly
\* greater than the subtree ratio of every collider; when its ratio is equal
\* to or lower than that of some collider the insert fails, with Collided
\* once the candidate has passed the steps before the collision rule, and the
\* pool keeps every transaction it held
C8_CollidingCandidateMustOutbid ==
    [][InsertStep =>
         LET tx == pending[1] IN
         /\ (last'.err = "none" /\ Colliders(tx) # {}) =>
               /\ \A c \in Colliders(tx) : Outbids(tx, c)
               /\ \A c \in Colliders(tx) : storage[c].transaction \notin PoolTxs'
         /\ (\E c \in Colliders(tx) : ~Outbids(tx, c)) =>
               /\ last'.err \in EarlierErrors \cup {"Collided"}
               /\ UNCHANGED poolVars]_vars

\* The pool holds one transaction, of the lowest ratio there is, and an insert
\* has been refused with Collided: the candidate collided with it at an equal
\* ratio (one that depends on it is refused with another error)
C8_Witness ==
    /\ last.op = "insert" /\ last.err = "Collided"
    /\ Cardinality(DOMAIN storage) = 1
    /\ \A i \in DOMAIN storage :
         storage[i].transaction.tip = 1 /\ storage[i].transaction.max_gas = MaxGasVal

\* tx spends an output of a transaction of the pool
DependsOnPool(tx) == \E u \in tx.inputs : Producers(storage, u) # {}

\* tx fits under the three limits of the pool as it is
Fits(tx) ==
    /\ current_gas + tx.max_gas <= config.max_gas
    /\ current_bytes_size + tx.bytes <= config.max_bytes_size
    /\ Cardinality(DOMAIN storage) + 1 <= config.max_txs

\* C9: an insert of a candidate that depends on a transaction of the pool
\* removes nothing; if the candidate collides the insert fails, with Collided
\* once the steps before the collision rule are passed, and if it does not
\* fit the insert fails, with NotInsertedLimitHit once the steps before are
\* passed
C9_DependentCandidateDisplacesNothing ==
    [][(InsertStep /\ DependsOnPool(pending[1])) =>
         LET tx == pending[1] IN
         /\ last'.removed = <<>>
         /\ PoolTxs \subseteq PoolTxs'
         /\ Colliders(tx) # {} => last'.err \in EarlierErrors \cup {"Collided"}
         /\ (Colliders(tx) = {} /\ ~Fits(tx)) =>
               last'.err \in EarlierErrors \cup {"NotInsertedLimitHit"}]_vars

\* The pool holds one transaction, of the lowest ratio there is, and an insert
\* has been refused for space: the candidate depended on it (one that does not
\* would have taken its place), and a candidate that depends on it and does
\* not fit exists
C9_Witness ==
    /\ last.op = "insert" /\ last.err = "NotInsertedLimitHit"
    /\ Cardinality(DOMAIN storage) = 1
    /\ \A i \in DOMAIN storage :
         storage[i].transaction.tip = 1 /\ storage[i].transaction.max_gas = MaxGasVal
    /\ \E tx \in Candidates : DependsOnPool(tx) /\ Colliders(tx) = {} /\ ~Fits(tx)

\* C10: while the pool is only extracted from, the transactions returned so
\* far hold no transaction twice, none of them is still in the pool, and
\* together with the pool they are the transactions the pool started with;
\* so once the pool is empty every one of them has been returned exactly once
C10_DrainReturnsEachOnce ==
    phase = "drain" =>
        /\ NoDuplicates(drained)
        /\ Range(drained) \cap PoolTxs = {}
        /\ Range(drained) \cup PoolTxs = drain_start
        /\ (DOMAIN storage = {} =>
              /\ Range(drained) = drain_start
              /\ Len(drained) = Cardinality(drain_start))

\* A pool of three transactions, one depending on another, has been emptied
C10_Witness ==
    /\ phase = "drain" /\ DOMAIN storage = {}
    /\ Len(drained) = 3
    /\ \E j, k \in 1..3 : \E u \in drained[k].inputs : u[1] = drained[j].id

\* Every component of the pool is empty
PoolIsEmpty(p) ==
    /\ p.current_gas = 0 /\ p.current_bytes_size = 0
    /\ DOMAIN p.tx_id_to_storage_id = {}
    /\ p.selection_algorithm = {}
    /\ DOMAIN p.storage = {}
    /\ DOMAIN p.collision_manager = {}

\* gather_best_txs can take tx at this gas price when it is alone in a block
Extractable(tx, gas_price) ==
    /\ TxIsGasPriceValid(tx, gas_price)
    /\ tx.max_gas <= config.max_block_gas
    /\ tx.bytes <= MaxBlockSize

\* C11 as stated: once an extract call of a drain has returned an empty list,
\* both totals are zero and the id index, the selection index, the storage
\* and the collision manager are empty
C11_EmptyListMeansEmptyPool ==
    (phase = "drain" /\ last.op = "extract" /\ last.err = "none" /\ last.removed = <<>>)
        => PoolIsEmpty(ThePool)

\* C11: in every state the calls can reach, an extract call that returns an
\* empty list at a gas price at which every transaction of the pool can pay
\* its fee, each of them fitting a block alone, leaves both totals at zero
\* and the id index, the selection index, the storage and the collision
\* manager empty
C11_EmptyListOfPayablePoolMeansEmptyPool ==
    \A gas_price \in 1..MaxGasPrice :
        (/\ ExtractTransactionsForBlock(ThePool, gas_price).err = "none"
         /\ ExtractTransactionsForBlock(ThePool, gas_price).removed = <<>>
         /\ \A tx \in PoolTxs : Extractable(tx, gas_price))
            => PoolIsEmpty(ExtractTransactionsForBlock(ThePool, gas_price).pool)

\* A drain of three transactions has ended with an extract call that
\* returned an empty list
C11_Witness ==
    /\ phase = "drain" /\ last.op = "extract" /\ last.err = "none"
    /\ last.removed = <<>>
    /\ Len(drained) = 3
    /\ PoolIsEmpty(ThePool)

\* tx is in the selection index when the call starts
ExecutableAtStart(tx) ==
    \E e \in selection_algorithm :
        e.id \in DOMAIN storage /\ storage[e.id].transaction = tx

\* tip / max_gas of a is strictly greater than tip / max_gas of b
HigherRatio(a, b) == a.tip * b.max_gas > b.tip * a.max_gas

\* C12: of two transactions that were executable when the extract call
\* started, have the same max_gas and the same size and are both returned,
\* the one with the higher tip / max_gas ratio comes first in the returned list
C12_HigherRatioFirst ==
    [][ExtractStep =>
         \A j, k \in 1..Len(last'.removed) :
             (/\ ExecutableAtStart(last'.removed[j])
              /\ ExecutableAtStart(last'.removed[k])
              /\ last'.removed[j].max_gas = last'.removed[k].max_gas
              /\ last'.removed[j].bytes = last'.removed[k].bytes
              /\ HigherRatio(last'.removed[j], last'.removed[k])) => j < k]_vars

\* tx spends no output of an unconfirmed transaction: it is executable
\* whenever it is in the pool
SpendsConfirmedOnly(tx) == \A u \in tx.inputs : u[1] = Confirmed

\* An extract call has returned two transactions that were executable from
\* the start, of the same max_gas and size and of different ratios
C12_Witness ==
    /\ last.op = "extract" /\ last.err = "none"
    /\ \E j, k \in 1..Len(last.removed) :
         /\ SpendsConfirmedOnly(last.removed[j]) /\ SpendsConfirmedOnly(last.removed[k])
         /\ last.removed[j].max_gas = last.removed[k].max_gas
         /\ last.removed[j].bytes = last.removed[k].bytes
         /\ HigherRatio(last.removed[j], last.removed[k])

\* The place of tx in the list an extract call returned, 0 if it is not there
PlaceIn(removed, tx) ==
    IF \E j \in 1..Len(removed) : removed[j] = tx
    THEN CHOOSE j \in 1..Len(removed) : removed[j] = tx
    ELSE 0

\* Both stored transactions are returned by the call, that of i before that of j
ReturnedBefore(removed, i, j) ==
    /\ PlaceIn(removed, storage[i].transaction) > 0
    /\ PlaceIn(removed, storage[j].transaction) > 0
    /\ PlaceIn(removed, storage[i].transaction) < PlaceIn(removed, storage[j].transaction)

\* Both stored transactions are executable, have the same tip / max_gas
\* ratio, and are both returned by the call
TiedAndReturned(removed, i, j) ==
    /\ i # j
    /\ storage[i].parents = {} /\ storage[j].parents = {}
    /\ storage[i].transaction.tip * storage[j].transaction.max_gas
         = storage[j].transaction.tip * storage[i].transaction.max_gas
    /\ PlaceIn(removed, storage[i].transaction) > 0
    /\ PlaceIn(removed, storage[j].transaction) > 0

TiedPlaces(j, k) ==
    /\ SpendsConfirmedOnly(last.removed[j]) /\ SpendsConfirmedOnly(last.removed[k])
    /\ last.removed[j].tip * last.removed[k].max_gas
         = last.removed[k].tip * last.removed[j].max_gas

RECURSIVE SeqSum(_, _)
\* The sum of f(s[i]) over the places of the sequence s: f is "max_gas" or "bytes"
SeqSum(s, f) == IF s = <<>> THEN 0 ELSE Head(s)[f] + SeqSum(Tail(s), f)

C15_ReturnedWithinMaxCount ==
    last.op = "extract" => Len(last.removed) <= MaxBlockTxs

\* The stored transactions the selection index holds
SelectionIds(sel) == {e.id : e \in sel}

\* C16: an extract call returns a transaction only after every parent it had
\* in the pool, so the order of extraction, within a list and from call to
\* call, puts every transaction after its parents; no transaction with a
\* parent in the pool is in the selection index, before or after the call;
\* and a dependent transaction left in the pool is in the selection index
\* after the call exactly when the call has returned all its parents
C16_ChildAfterItsParents ==
    [][ExtractStep =>
         /\ \A k \in 1..Len(last'.removed) :
              \A i \in IndicesOf({last'.removed[k].id}) :
                  \A q \in storage[i].parents :
                      /\ PlaceIn(last'.removed, storage[q].transaction) > 0
                      /\ PlaceIn(last'.removed, storage[q].transaction) < k
         /\ \A i \in SelectionIds(selection_algorithm) : storage[i].parents = {}
         /\ \A i \in SelectionIds(selection_algorithm') : storage'[i].parents = {}
         /\ \A i \in DOMAIN storage \cap DOMAIN storage' :
              storage[i].parents # {} =>
                  (i \in SelectionIds(selection_algorithm')
                     <=> \A q \in storage[i].parents :
                            PlaceIn(last'.removed, storage[q].transaction) > 0)]_vars

\* An extract call has returned a parent and then, promoted within the call,
\* its child, and has left in the pool a transaction of which one parent is
\* still there
C16_Witness ==
    /\ last.op = "extract" /\ last.err = "none"
    /\ \E j, k \in 1..Len(last.removed) :
         /\ j < k
         /\ \E u \in last.removed[k].inputs : u[1] = last.removed[j].id
    /\ \E i \in DOMAIN storage : storage[i].parents # {}

\* C17: an insert of a transaction whose id is already in the pool fails and
\* changes nothing, with DuplicateTxId unless the persistent view cannot be
\* had (Database) or the candidate has no gas (ZeroMaxGas), the two steps
\* that come before; and after any insert no two stored transactions have
\* the same id and the id index leads from every id to the record of the
\* transaction with that id
C17_DuplicateIdIsRefused ==
    [][InsertStep =>
         /\ pending[1].id \in DOMAIN tx_id_to_storage_id =>
              /\ last'.err \in {"Database", "ZeroMaxGas", "DuplicateTxId"}
              /\ last'.err = "ZeroMaxGas" => pending[1].max_gas = 0
              /\ UNCHANGED poolVars
         /\ \A i, j \in DOMAIN storage' :
              storage'[i].transaction.id = storage'[j].transaction.id => i = j
         /\ \A id \in DOMAIN tx_id_to_storage_id' :
              /\ tx_id_to_storage_id'[id] \in DOMAIN storage'
              /\ storage'[tx_id_to_storage_id'[id]].transaction.id = id]_vars

\* An insert into a pool of two transactions has been refused because the
\* pool holds the id
C17_Witness ==
    /\ last.op = "insert" /\ last.err = "DuplicateTxId"
    /\ Cardinality(DOMAIN storage) = 2

\* What can_store_transaction makes of tx in the pool as it is
Checked(tx) == CanStoreTransaction(storage, tx, config.max_txs_chain_count)

\* The pool has no room for tx: it does not fit, and it has a parent in the
\* pool or find_free_space finds no transactions to give up for it
NoRoomFor(tx) ==
    /\ ~Fits(tx)
    /\ \/ DependsOnPool(tx)
       \/ FindFreeSpace(ThePool,
                        [gas_left |-> current_gas + tx.max_gas,
                         bytes_left |-> current_bytes_size + tx.bytes,
                         txs_left |-> Cardinality(DOMAIN tx_id_to_storage_id) + 1],
                        Checked(tx)).err # "none"

\* The error of the earliest step of can_insert_transaction that tx fails
\* when the persistent view is there, "none" if it passes them all
EarliestFailure(tx) ==
    IF tx.max_gas = 0 THEN "ZeroMaxGas"
    ELSE IF tx.id \in DOMAIN tx_id_to_storage_id THEN "DuplicateTxId"
    ELSE IF tx.messages \cap BlackListedMessages # {} THEN "Blacklisted"
    ELSE IF tx.blob # 0 /\ tx.blob \in DbBlobs THEN "NotInsertedBlobIdAlreadyTaken"
    ELSE IF ~ValidateInputs(storage, tx, config.utxo_validation)
         THEN "NotInsertedInputsInvalid"
    ELSE IF Checked(tx).err # "none" THEN "ChainTooLong"
    ELSE IF Colliders(tx) \cap Checked(tx).all_dependencies # {}
         THEN "NotInsertedCollisionIsDependency"
    ELSE IF \E c \in Colliders(tx) : DependsOnPool(tx) \/ ~Outbids(tx, c) THEN "Collided"
    ELSE IF NoRoomFor(tx) THEN "NotInsertedLimitHit"
    ELSE "none"

\* C18: insert returns Database when the persistent view cannot be had, and
\* otherwise the error of the earliest step the candidate fails, in the
\* order ZeroMaxGas, DuplicateTxId, Blacklisted, BlobIdAlreadyTaken, input
\* validation, chain length, collision with a dependency, collision rule,
\* pool limits; it succeeds only if the candidate fails none
C18_EarliestFailureIsReturned ==
    [][InsertStep => last'.err \in {"Database", EarliestFailure(pending[1])}]_vars

\* An insert into a pool that holds a transaction has been refused for a
\* blacklisted message, which the persistent storage does not know either:
\* the candidate failed the black list and the validation of the inputs
C18_Witness ==
    /\ last.op = "insert" /\ last.err = "Blacklisted"
    /\ BlackListedMessages \cap DbMessages = {}
    /\ DOMAIN storage # {}

\* C19: the pool never holds more than pool_limits.max_txs transactions, and
\* an insert into a pool that holds max_txs of them fails or displaces at
\* least one
C19_CountWithinMaxTxs ==
    [][/\ Cardinality(DOMAIN storage') <= config.max_txs
       /\ Cardinality(DOMAIN tx_id_to_storage_id') <= config.max_txs
       /\ (InsertStep /\ Cardinality(DOMAIN storage) = config.max_txs) =>
             (last'.err # "none" \/ last'.removed # <<>>)]_vars

\* An insert into a pool holding max_txs transactions has displaced a
\* transaction chosen by find_free_space and the pool holds max_txs again
C19_Witness ==
    /\ last.op = "insert" /\ last.err = "none"
    /\ last.victims # {} /\ last.colliders = {}
    /\ Len(last.removed) = 1
    /\ Cardinality(DOMAIN storage) = config.max_txs

\* The sum of a field, "max_gas" or "bytes", over a set of stored transactions
StoredSum(S, f) == SumOver(S, [i \in S |-> storage[i].transaction[f]])

\* What find_free_space counts more than once when it gives up the stored
\* transactions V: the sum over V of the subtree of each, less the sum over
\* the union of the subtrees
CountedTwice(V, f) ==
    SumOver(V, [v \in V |-> StoredSum(Subtree(storage, {v}), f)])
        - StoredSum(Subtree(storage, V), f)

\* C20 as stated: after a successful insert current_gas is at most
\* pool_limits.max_gas and current_bytes_size at most
\* pool_limits.max_bytes_size
C20_TotalsWithinLimits ==
    (last.op = "insert" /\ last.err = "none") =>
        /\ current_gas <= config.max_gas
        /\ current_bytes_size <= config.max_bytes_size

\* C20: after a successful insert current_gas exceeds pool_limits.max_gas at
\* most by the gas that find_free_space counted more than once, the gas of
\* the descendants shared by the victims it chose, and current_bytes_size
\* exceeds pool_limits.max_bytes_size at most by their size; both limits
\* hold when no two victims share a descendant
C20_TotalsWithinLimitsButForSharedDescendants ==
    [][(InsertStep /\ last'.err = "none") =>
         /\ current_gas' <= config.max_gas
                              + CountedTwice(IndicesOf(last'.victims), "max_gas")
         /\ current_bytes_size' <= config.max_bytes_size
                              + CountedTwice(IndicesOf(last'.victims), "bytes")]_vars

\* An insert has displaced two executable transactions and the dependent
\* they shared, and the pool now holds more gas than pool_limits.max_gas
C20_Witness ==
    /\ last.op = "insert" /\ last.err = "none"
    /\ Cardinality(last.victims) = 2
    /\ \E t \in Range(last.removed) : {u[1] : u \in t.inputs} = last.victims
    /\ current_gas > config.max_gas

\* Number of transactions on the longest chain that ends with a candidate
\* spending outputs of the records S of st
ChainThrough(st, S) ==
    IF S = {} THEN 1
    ELSE 1 + (CHOOSE d \in {ChainDepth(st, i) : i \in S} :
                \A j \in S : ChainDepth(st, j) <= d)

\* The errors of the steps of can_insert_transaction that come before the
\* storage checks the candidate
ErrorsBeforeStorageCheck ==
    {"Database", "ZeroMaxGas", "DuplicateTxId", "Blacklisted",
     "NotInsertedBlobIdAlreadyTaken", "NotInsertedInputsInvalid"}

\* C21: after every step no chain of the graph is longer than
\* max_txs_chain_count, and an insert of a candidate that would end a longer
\* chain fails, with ChainTooLong once the candidate has passed the steps
\* before the storage check, and leaves the pool unchanged
C21_NoChainLongerThanMax ==
    [][/\ \A i \in DOMAIN storage' :
            ChainDepth(storage', i) <= config'.max_txs_chain_count
       /\ InsertStep =>
            LET tx == pending[1]
                deps == UNION {Producers(storage, u) : u \in tx.inputs}
            IN ChainThrough(storage, deps) > config.max_txs_chain_count =>
                 /\ last'.err \in ErrorsBeforeStorageCheck \cup {"ChainTooLong"}
                 /\ UNCHANGED poolVars]_vars

\* The pool holds a chain of max_txs_chain_count transactions and an insert of
\* a child of its last one has been refused with ChainTooLong
C21_Witness ==
    /\ last.op = "insert" /\ last.err = "ChainTooLong"
    /\ \E i \in DOMAIN storage : ChainDepth(storage, i) = config.max_txs_chain_count

\* The record i and all its transitive descendants
Descendants(i) == Subtree(storage, {i})

\* C22: the cumulative tip, gas and size of every stored record are the sums
\* over the transaction and its transitive descendants, each counted once, and
\* number_dependents_in_chain is the number of these transactions
C22_SubtreeAggregatesAreExact ==
    \A i \in DOMAIN storage :
       /\ storage[i].dependents_cumulative_tip = StoredSum(Descendants(i), "tip")
       /\ storage[i].dependents_cumulative_gas = StoredSum(Descendants(i), "max_gas")
       /\ storage[i].dependents_cumulative_bytes_size = StoredSum(Descendants(i), "bytes")
       /\ storage[i].number_dependents_in_chain = Cardinality(Descendants(i))

\* A call has removed a transaction that had two parents, and both parents
\* are still in the pool
C22_Witness ==
    /\ last.op \in {"insert", "remove"} /\ last.err = "none"
    /\ \E t \in Range(last.removed) :
         /\ Cardinality({u[1] : u \in t.inputs}) = 2
         /\ \A u \in t.inputs : Producers(storage, u) # {}

\* The records of the pool tx depends on, directly or through others
Dependencies(tx) ==
    UpwardClosure(storage, UNION {Producers(storage, u) : u \in tx.inputs})

\* C23: an insert of a candidate that collides with one of its dependencies
\* fails with NotInsertedCollisionIsDependency once the candidate has passed
\* the steps up to the storage check, whatever the collision rule and the
\* space check would say, and the pool is left as it was
C23_CollisionWithDependencyIsRefused ==
    [][InsertStep =>
         LET tx == pending[1] IN
         Colliders(tx) \cap Dependencies(tx) # {} =>
            /\ last'.err \in ErrorsBeforeStorageCheck
                               \cup {"ChainTooLong", "NotInsertedCollisionIsDependency"}
            /\ UNCHANGED poolVars]_vars

\* An insert has been refused with NotInsertedCollisionIsDependency
C23_Witness ==
    /\ last.op = "insert" /\ last.err = "NotInsertedCollisionIsDependency"
    /\ storage # <<>>

\* The subtree ratio of the record c is strictly lower than tip / max_gas of tx
StrictlyWorse(tx, c) == SubtreeTip(c) * tx.max_gas < tx.tip * SubtreeGas(c)

\* The subtree ratio of the record c is not higher than tip / max_gas of tx
NotBetter(tx, c) == SubtreeTip(c) * tx.max_gas <= tx.tip * SubtreeGas(c)

\* tip / max_gas of the record e is not lower than that of the record v
OwnRatioNotLower(e, v) ==
    storage[e].transaction.tip * storage[v].transaction.max_gas
        >= storage[v].transaction.tip * storage[e].transaction.max_gas

\* The executable transactions of the pool
ExecutableRecords == {i \in DOMAIN storage : storage[i].parents = {}}

\* An insert of a candidate without dependencies that does not fit makes
\* space only by evicting executable transactions that are Worse than the
\* candidate, with their subtrees, lowest ratio first, and fails with
\* NotInsertedLimitHit, leaving the pool as it was, when it cannot
EvictionRule(Worse(_, _)) ==
    InsertStep =>
         LET tx == pending[1]
             victims == IndicesOf(last'.victims)
         IN (~Fits(tx) /\ ~DependsOnPool(tx)) =>
            /\ last'.err \in
                 EarlierErrors \cup {"Collided", "NotInsertedLimitHit", "none"}
            /\ last'.err = "none" =>
                 /\ victims # {}
                 /\ victims \subseteq ExecutableRecords
                 /\ \A v \in victims : Worse(tx, v)
                 /\ \A v \in victims : \A e \in ExecutableRecords \ victims :
                      OwnRatioNotLower(e, v)
                 /\ \A i \in Subtree(storage, victims) :
                      storage[i].transaction \notin PoolTxs'
            /\ last'.err # "none" => UNCHANGED poolVars
            /\ (\A e \in ExecutableRecords : ~Worse(tx, e)) => last'.err # "none"

\* C24: a candidate without dependencies that does not fit within the limits
\* gets space only by the eviction of executable transactions, with their
\* subtrees, whose subtree ratio is strictly lower than its tip / max_gas,
\* lowest ratio first; otherwise the insert fails with NotInsertedLimitHit
C24_EvictedAreStrictlyWorse == [][EvictionRule(StrictlyWorse)]_vars

\* The same with "not higher" in the place of "strictly lower"
C24_EvictedAreNotBetter == [][EvictionRule(NotBetter)]_vars

\* The max fee of tx at gas_price is above the max_fee_limit of its policies
FeeExceedsLimit(tx, gas_price) == tx.max_gas * gas_price + tx.tip > tx.max_fee_limit

\* The step is an extract call made at gas_price
ExtractedAt(r) ==
    /\ r.err = "none" /\ r.removed = last'.removed
    /\ r.pool.storage = storage' /\ r.pool.selection_algorithm = selection_algorithm'

\* C25: an extract call at a gas price neither returns nor removes a
\* transaction whose max fee at that price exceeds its max_fee_limit: the
\* transaction is still in the storage and the id index, still in the
\* selection index if it was there, and none of its descendants is returned
C25_TooExpensiveIsSkippedAndKept ==
    [][ExtractStep =>
         \A gas_price \in 1..MaxGasPrice :
            ExtractedAt(ExtractTransactionsForBlock(ThePool, gas_price)) =>
               \A i \in DOMAIN storage :
                  FeeExceedsLimit(storage[i].transaction, gas_price) =>
                     /\ PlaceIn(last'.removed, storage[i].transaction) = 0
                     /\ i \in DOMAIN storage'
                     /\ storage'[i].transaction = storage[i].transaction
                     /\ storage[i].transaction.id \in DOMAIN tx_id_to_storage_id'
                     /\ i \in SelectionIds(selection_algorithm)
                           => i \in SelectionIds(selection_algorithm')
                     /\ \A j \in Subtree(storage, {i}) :
                           PlaceIn(last'.removed, storage[j].transaction) = 0]_vars

\* An extract call has returned a transaction and has left in the selection
\* index a transaction that spends confirmed coins only, has a dependent and
\* fits the gas and the size the call has left of the block: it was skipped
\* for its fee
C25_Witness ==
    /\ last.op = "extract" /\ last.err = "none"
    /\ last.removed # <<>>
    /\ \E e \in selection_algorithm :
         /\ SpendsConfirmedOnly(storage[e.id].transaction)
         /\ storage[e.id].children # {}
         /\ storage[e.id].transaction.max_gas
               <= config.max_block_gas - SeqSum(last.removed, "max_gas")
         /\ storage[e.id].transaction.bytes
               <= MaxBlockSize - SeqSum(last.removed, "bytes")

\* The call returns GasPriceNotFound and no transaction, and the pool it
\* leaves is p
FailsForGasPrice(r, p) ==
    /\ r.err = "GasPriceNotFound"
    /\ r.removed = <<>>
    /\ r.pool = p

\* C26: an extract call for which the provider has no gas price returns
\* GasPriceNotFound and no transaction, and leaves the storage, the id index,
\* the selection index, the collision index and the totals as they were
C26_NoGasPriceChangesNothing ==
    [][ExtractStep =>
         /\ FailsForGasPrice(ExtractTransactionsForBlock(ThePool, NoGasPrice), ThePool)
         /\ last'.err = "GasPriceNotFound" =>
               /\ last'.removed = <<>>
               /\ UNCHANGED poolVars]_vars

\* An extract call on a pool with executable transactions has returned
\* GasPriceNotFound
C26_Witness ==
    /\ last.op = "extract" /\ last.err = "GasPriceNotFound"
    /\ selection_algorithm # {}
    /\ current_gas > 0

\* The ids a transaction can have
AllTxIds == 1..WideTxIds

\* C27: tx_id_to_storage_id is a bijection between the ids of the pool's
\* transactions and the live storage indices, every id mapped to the record
\* that holds the transaction of this id; find_one(id) returns a transaction
\* exactly when a transaction of this id is in the pool, and returns it
C27_IdIndexIsABijection ==
    /\ DOMAIN tx_id_to_storage_id = {tx.id : tx \in PoolTxs}
    /\ {tx_id_to_storage_id[id] : id \in DOMAIN tx_id_to_storage_id} = DOMAIN storage
    /\ \A a, b \in DOMAIN tx_id_to_storage_id :
          tx_id_to_storage_id[a] = tx_id_to_storage_id[b] => a = b
    /\ \A id \in DOMAIN tx_id_to_storage_id :
          storage[tx_id_to_storage_id[id]].transaction.id = id
    /\ \A id \in AllTxIds :
          /\ FindOne(ThePool, id) # <<>> <=> \E tx \in PoolTxs : tx.id = id
          /\ \A tx \in PoolTxs : tx.id = id => FindOne(ThePool, id) = <<tx>>

\* A call has removed transactions and has left others in the pool
C27_Witness ==
    /\ last.err = "none" /\ last.removed # <<>>
    /\ Cardinality(DOMAIN tx_id_to_storage_id) >= 2
    /\ \E id \in AllTxIds : FindOne(ThePool, id) = <<>>

\* The step is one call of Task::run
RunStep ==
    /\ tasks["service"].program = <<>>
    /\ should_continue
    /\ should_continue' # should_continue \/ tasks'["service"] # tasks["service"]

\* The number of ticks, blocks, gossip messages and subscriptions the step
\* takes from the inputs of the service
EventsTaken ==
      (IF streams.tick /\ ~streams'.tick THEN 1 ELSE 0)
    + (Len(streams.blocks) - Len(streams'.blocks))
    + (Len(streams.p2p) - Len(streams'.p2p))
    + (streams.peers - streams'.peers)

\* The service task is left with the handler of the one event the step took
\* from the inputs, given what the event carried
HandlesTheEventTaken ==
    LET service == tasks'["service"] IN
    /\ (streams.tick /\ ~streams'.tick) => service.program = PruneOldTransactions
    /\ Len(streams'.blocks) < Len(streams.blocks) =>
          /\ service.program = ManageImportedBlock
          /\ service.height = Head(streams.blocks)
    /\ Len(streams'.p2p) < Len(streams.p2p) =>
          /\ service.tx = Head(streams.p2p)
          /\ service.program =
                IF Head(streams.p2p) = <<>> THEN <<>> ELSE InsertOfSharedState
    /\ streams'.peers < streams.peers => service.program = NewPeerSubscribed

\* C28: a call of run fires one branch of the select: it takes at most one
\* event from the timer and the three streams and then runs the handler of
\* this event and no other; when it takes none it has seen the shutdown
\* signal or the end of a stream, runs no handler and returns false; it
\* returns true exactly when it has run a handler
C28_OneEventPerIteration ==
    [][RunStep =>
         /\ EventsTaken <= 1
         /\ tasks'["service"].held = {}
         /\ EventsTaken = 1 => HandlesTheEventTaken
         /\ EventsTaken = 0 =>
               /\ streams.stop \/ streams.ended
               /\ tasks'["service"].program = <<>>
         /\ should_continue' <=> tasks'["service"].program # <<>>]_vars

\* The service has just taken a block from the import stream while the
\* timer, the gossip stream and the new-peer stream were ready too, and they
\* still are
C28_Witness ==
    /\ tasks["service"].program = ManageImportedBlock
    /\ streams.tick
    /\ streams.p2p # <<>>
    /\ streams.peers > 0
    /\ streams.stop

Wanting(t) ==
    /\ tasks[t].program # <<>>
    /\ Head(tasks[t].program).op \in {"write", "read"}

\* The lock the task is about to take
Wanted(t) == Head(tasks[t].program).lock

\* The tasks whose guards keep t from the lock it is about to take
Blockers(t) ==
    IF Head(tasks[t].program).op = "write" THEN Holders(Wanted(t)) ELSE Writers(Wanted(t))

\* Some tasks wait for locks that tasks among them hold
Deadlocked ==
    \E T \in SUBSET Tasks \ {{}} : \A t \in T : Wanting(t) /\ Blockers(t) \cap T # {}

\* C30: a task that takes or waits for a lock holds only locks that come
\* before it in the order pool, current_height, time queue, so none waits
\* for the pool while it holds current_height; the handler of an imported
\* block holds no lock when it takes current_height and only the pool lock
\* when it removes the transactions; and no tasks wait for each other
C30_LocksTakenInOrder ==
    /\ \A t \in Tasks :
          Wanting(t) => \A g \in tasks[t].held : LockRank(g[1]) < LockRank(Wanted(t))
    /\ (Wanting("service") /\ Wanted("service") = "current_height")
          => tasks["service"].held = {}
    /\ Runs("service", "remove_transaction")
          => tasks["service"].held = {<<"pool", "write">>}
    /\ Runs("service", "set_height")
          => tasks["service"].held = {<<"current_height", "write">>}
    /\ ~Deadlocked

\* A reader that holds the pool waits for current_height while the handler
\* of an imported block holds it to set the height
C30_Witness ==
    /\ "reader" \in Tasks
    /\ <<"pool", "read">> \in tasks["reader"].held
    /\ Wanting("reader") /\ Wanted("reader") = "current_height"
    /\ Runs("service", "set_height")
    /\ "service" \in Blockers("reader")

\* The accumulator gather_best_txs starts with when the pool is p
StartOfGather(p) ==
    [gas_left |-> BlockConstraints(p).max_gas,
     space_left |-> BlockConstraints(p).maximum_block_size,
     nb_left |-> BlockConstraints(p).maximum_txs,
     storage |-> p.storage, result |-> <<>>,
     clean_up_list |-> <<>>, transactions_to_remove |-> <<>>,
     transactions_to_promote |-> <<>>]

\* The condition of the while loop of gather_best_txs
LoopGoesOn(sel, acc) ==
    acc.gas_left > 0 /\ acc.nb_left > 0 /\ acc.space_left > 0 /\ sel # {}

\* The for loop of one pass, started from what the pass before left
PassFrom(sel, acc, gas_price) ==
    SweepEntries(SortedEntries(sel), 1,
                 [acc EXCEPT !.clean_up_list = <<>>,
                             !.transactions_to_remove = <<>>,
                             !.transactions_to_promote = <<>>], gas_price)

\* The selection index the next pass starts with
SelectionAfter(sel, pass) ==
    PromoteAll(RemoveKeys(RemoveKeys(sel, pass.transactions_to_remove),
                          pass.clean_up_list),
               pass.storage, pass.transactions_to_promote)

\* The pass has selected no transaction and promoted none
NoProgress(pass) ==
    pass.clean_up_list = <<>> /\ pass.transactions_to_promote = <<>>

\* The pass has selected a transaction of the storage, and the not yet
\* selected transactions are strictly fewer after it
Shrinks(acc, pass) ==
    /\ Len(pass.result) > Len(acc.result)
    /\ DOMAIN pass.storage \subseteq DOMAIN acc.storage
    /\ DOMAIN pass.storage # DOMAIN acc.storage

RECURSIVE ExitsWithin(_, _, _, _)
RECURSIVE PassExitsWithin(_, _, _, _, _)
\* The loop started with sel and acc exits after at most passes_left passes
\* that go on, each of them shrinking the storage
ExitsWithin(sel, acc, gas_price, passes_left) ==
    IF ~LoopGoesOn(sel, acc) THEN TRUE
    ELSE PassExitsWithin(sel, acc, PassFrom(sel, acc, gas_price), gas_price, passes_left)

PassExitsWithin(sel, acc, pass, gas_price, passes_left) ==
    IF NoProgress(pass) THEN TRUE
    ELSE /\ passes_left > 0
         /\ Shrinks(acc, pass)
         /\ ExitsWithin(SelectionAfter(sel, pass), pass, gas_price, passes_left - 1)

\* Every executable transaction is skipped at gas_price: its fee exceeds its
\* limit or it does not fit a block
AllSkippedAt(gas_price) ==
    \A e \in selection_algorithm :
        \/ FeeExceedsLimit(storage[e.id].transaction, gas_price)
        \/ storage[e.id].transaction.max_gas > config.max_block_gas
        \/ storage[e.id].transaction.bytes > MaxBlockSize

\* C31: in every state the calls can reach and at every gas price, the loop
\* of gather_best_txs ends: each pass either exits the loop or selects a
\* transaction, which leaves strictly fewer stored transactions not yet
\* selected, so that there are no more passes that go on than stored
\* transactions; a pass that skips every executable transaction exits
C31_GatherBestTxsTerminates ==
    \A gas_price \in 1..MaxGasPrice :
        /\ ExitsWithin(selection_algorithm, StartOfGather(ThePool), gas_price,
                       Cardinality(DOMAIN storage))
        /\ (selection_algorithm # {} /\ AllSkippedAt(gas_price))
              => /\ NoProgress(PassFrom(selection_algorithm, StartOfGather(ThePool),
                                        gas_price))
                 /\ ExtractTransactionsForBlock(ThePool, gas_price).removed = <<>>

\* An extract call has returned no transaction from a pool that has an
\* executable transaction with a dependent, every executable transaction
\* being skipped at some gas price, while at another price the loop makes
\* two passes that go on
C31_Witness ==
    /\ last.op = "extract" /\ last.err = "none" /\ last.removed = <<>>
    /\ \E e \in selection_algorithm : storage[e.id].children # {}
    /\ \E gas_price \in 1..MaxGasPrice : AllSkippedAt(gas_price)
    /\ \E gas_price \in 1..MaxGasPrice :
         Len(ExtractTransactionsForBlock(ThePool, gas_price).removed) >= 2

\* The colliders of tx and all that depends on them
CollidingSubtrees(tx) == Subtree(storage, Colliders(tx))

\* tx fits under the three limits once its colliding subtrees are removed
FitsWithoutColliders(tx) ==
    /\ current_gas - StoredSum(CollidingSubtrees(tx), "max_gas") + tx.max_gas
          <= config.max_gas
    /\ current_bytes_size - StoredSum(CollidingSubtrees(tx), "bytes") + tx.bytes
          <= config.max_bytes_size
    /\ Cardinality(DOMAIN storage) - Cardinality(CollidingSubtrees(tx)) + 1
          <= config.max_txs

\* tx passes every step before the space check and wins its collisions
WinsItsCollisions(tx) ==
    /\ EarliestFailure(tx) \in {"none", "NotInsertedLimitHit"}
    /\ Colliders(tx) # {}
    /\ \A c \in Colliders(tx) : Outbids(tx, c)

\* C32 as stated: a candidate that wins its collisions and fits once its
\* colliding subtrees are removed is admitted when the persistent view is
\* there, and the insert removes no transaction outside those subtrees
C32_CollidersMakeSpace ==
    [][(InsertStep /\ WinsItsCollisions(pending[1])
                   /\ FitsWithoutColliders(pending[1])
                   /\ last'.err # "Database") =>
          /\ last'.err = "none"
          /\ \A i \in DOMAIN storage \ CollidingSubtrees(pending[1]) :
                i \in DOMAIN storage' /\ storage'[i].transaction = storage[i].transaction
       ]_vars

\* The entries of the selection index whose transaction the call returns
ReturnedEntries ==
    {e \in selection_algorithm : PlaceIn(last'.removed, storage[e.id].transaction) # 0}

\* The returned entries the sweep reaches before the entry e
ReturnedAhead(e) == {f \in ReturnedEntries : KeyCmp(f.key, e.key) > 0}

\* What the transactions of a set of entries sum to in a field
EntriesSum(E, f) == StoredSum({e.id : e \in E}, f)

\* The transaction of e fits what is left of the block when the sweep reaches it
FitsWhenReached(e) ==
    /\ storage[e.id].transaction.max_gas
          <= config.max_block_gas - EntriesSum(ReturnedAhead(e), "max_gas")
    /\ storage[e.id].transaction.bytes
          <= MaxBlockSize - EntriesSum(ReturnedAhead(e), "bytes")

\* C33: in an extract call at a gas price, a transaction that is executable
\* when the call starts and can pay its fee is returned exactly if it fits
\* the gas and the size left by the executable transactions returned ahead
\* of it; one that does not fit is still in the storage, the id index and
\* the selection index after the call, and the transactions behind it that
\* fit are returned all the same
C33_TooLargeIsSkippedNotTheRest ==
    [][ExtractStep =>
         \A gas_price \in 1..MaxGasPrice :
            ExtractedAt(ExtractTransactionsForBlock(ThePool, gas_price)) =>
               \A e \in selection_algorithm :
                  ~FeeExceedsLimit(storage[e.id].transaction, gas_price) =>
                     /\ e \in ReturnedEntries <=> FitsWhenReached(e)
                     /\ ~FitsWhenReached(e) =>
                           /\ e.id \in DOMAIN storage'
                           /\ storage'[e.id] = storage[e.id]
                           /\ e \in selection_algorithm'
                           /\ storage[e.id].transaction.id
                                 \in DOMAIN tx_id_to_storage_id']_vars

\* An extract call has returned two transactions that spend no unconfirmed
\* output and has left in the selection index a third one whose ratio is
\* strictly between theirs, whose fee is within its limit at a price at which
\* theirs are, and whose gas exceeds what the first of the two left of the
\* block
C33_Witness ==
    /\ last.op = "extract" /\ last.err = "none"
    /\ Len(last.removed) = 2
    /\ \A j \in 1..2 : SpendsConfirmedOnly(last.removed[j])
    /\ \E e \in selection_algorithm :
         /\ HigherRatio(last.removed[1], storage[e.id].transaction)
         /\ HigherRatio(storage[e.id].transaction, last.removed[2])
         /\ \E gas_price \in 1..MaxGasPrice :
               \A tx \in {storage[e.id].transaction} \cup Range(last.removed) :
                   ~FeeExceedsLimit(tx, gas_price)
         /\ storage[e.id].transaction.max_gas
               > config.max_block_gas - last.removed[1].max_gas

\* The stored transactions an insert gives up: the victims chosen for space,
\* the colliders, and all that depends on either
GivenUp(victims, colliders) == Subtree(storage, IndicesOf(victims \cup colliders))

\* C34: a successful insert returns each transaction it removes once, also
\* when the subtrees of victims and colliders overlap: the returned list has
\* no duplicate and holds the victims, the colliders and their descendants;
\* current_gas and current_bytes_size go down by the gas and the size of
\* each of them once and up by the candidate's, and the id index and the
\* selection index lose exactly their entries
C34_OverlappingSubtreesRemovedOnce ==
    [][(InsertStep /\ last'.err = "none") =>
          /\ NoDuplicates(last'.removed)
          /\ Range(last'.removed)
                = {storage[i].transaction : i \in GivenUp(last'.victims, last'.colliders)}
          /\ current_gas' = current_gas + pending[1].max_gas
                - StoredSum(GivenUp(last'.victims, last'.colliders), "max_gas")
          /\ current_bytes_size' = current_bytes_size + pending[1].bytes
                - StoredSum(GivenUp(last'.victims, last'.colliders), "bytes")
          /\ DOMAIN tx_id_to_storage_id'
                = (DOMAIN tx_id_to_storage_id
                     \ {storage[i].transaction.id :
                           i \in GivenUp(last'.victims, last'.colliders)})
                  \cup {pending[1].id}
          /\ {e \in selection_algorithm' : e.key.tx_id # pending[1].id}
                = {e \in selection_algorithm :
                      e.id \notin GivenUp(last'.victims, last'.colliders)}]_vars

\* A successful insert has removed a collider that was itself chosen for
\* space, or that spent an output of a transaction chosen for space
C34_Witness ==
    /\ last.op = "insert" /\ last.err = "none"
    /\ last.colliders # {} /\ last.victims # {}
    /\ \E t \in Range(last.removed) :
         /\ t.id \in last.colliders
         /\ \/ t.id \in last.victims
            \/ \E u \in t.inputs : u[1] \in last.victims

\* The gas, the size and the number of transactions of the subtree of v
SubtreeBytes(v) == StoredSum(Subtree(storage, {v}), "bytes")
SubtreeCount(v) == Cardinality(Subtree(storage, {v}))

\* The subtree ratio of v is not greater than tip / max_gas of tx
SubtreeRatioNotGreater(v, tx) == SubtreeTip(v) * tx.max_gas <= tx.tip * SubtreeGas(v)

\* Giving up the subtrees of the executable transactions V, each summed on
\* its own, brings the three totals with tx within the limits of the pool
MakesRoom(V, tx) ==
    /\ current_gas + tx.max_gas
          <= config.max_gas + SumOver(V, [v \in V |-> SubtreeGas(v)])
    /\ current_bytes_size + tx.bytes
          <= config.max_bytes_size + SumOver(V, [v \in V |-> SubtreeBytes(v)])
    /\ Cardinality(DOMAIN tx_id_to_storage_id) + 1
          <= config.max_txs + SumOver(V, [v \in V |-> SubtreeCount(v)])

\* A set of executable transactions, none of a subtree ratio greater than the
\* ratio of tx, that makes room for tx
AdmissibleEvictions(tx) ==
    {V \in SUBSET SelectionIds(selection_algorithm) :
        /\ \A v \in V : SubtreeRatioNotGreater(v, tx)
        /\ MakesRoom(V, tx)}

\* C35 as stated: when the insert of a candidate that depends on no pool
\* transaction fails with NotInsertedLimitHit, no set of executable
\* transactions of subtree ratio not greater than the candidate's makes room
\* for it
C35_RejectedOnlyWithoutAdmissibleSet ==
    [][(InsertStep /\ ~DependsOnPool(pending[1])
                   /\ last'.err = "NotInsertedLimitHit") =>
          AdmissibleEvictions(pending[1]) = {}]_vars

\* The step takes the end of a stream: a stream has ended and the step
\* takes no event from the inputs
TakesEndOfStream == streams.ended /\ EventsTaken = 0

\* C36 as stated: a call of run returns false only when the shutdown signal
\* is there or a stream has ended, and returns true whenever it has taken an
\* event from the timer or from a stream, a gossip message without a
\* transaction included
C36_StopsOnlyOnShutdownOrEndOfStream ==
    [][RunStep =>
         /\ ~should_continue' => (streams.stop \/ TakesEndOfStream)
         /\ EventsTaken = 1 => should_continue']_vars

\* The gas or the size of tx alone exceeds the limit of the pool
LargerThanThePool(tx) ==
    tx.max_gas > config.max_gas \/ tx.bytes > config.max_bytes_size

\* C37 as stated: the insert of a candidate whose own max_gas exceeds
\* pool_limits.max_gas, or whose own size exceeds pool_limits.max_bytes_size,
\* fails, with NotInsertedLimitHit once the steps before the space check are
\* passed, and removes no transaction
C37_LargerThanThePoolIsRefused ==
    [][(InsertStep /\ LargerThanThePool(pending[1])) =>
          /\ last'.err \in EarlierErrors \cup {"Collided", "NotInsertedLimitHit"}
          /\ UNCHANGED poolVars]_vars

\* C37: the insert of a candidate whose own max_gas or size exceeds the
\* limit of the pool fails, with NotInsertedLimitHit once the steps before
\* the space check are passed, and removes no transaction, unless the
\* victims find_free_space chooses share descendants whose gas, or size,
\* counted once per victim covers what the candidate has above the limit;
\* then the candidate is admitted and the victims are removed
C37_LargerThanThePoolIsRefusedButForSharedDescendants ==
    [][(InsertStep /\ LargerThanThePool(pending[1])) =>
          \/ /\ last'.err \in EarlierErrors \cup {"Collided", "NotInsertedLimitHit"}
             /\ UNCHANGED poolVars
          \/ /\ last'.err = "none"
             /\ Cardinality(last'.victims) >= 2
             /\ pending[1].max_gas
                   <= config.max_gas + CountedTwice(IndicesOf(last'.victims), "max_gas")
             /\ pending[1].bytes
                   <= config.max_bytes_size
                         + CountedTwice(IndicesOf(last'.victims), "bytes")]_vars

\* An insert into the empty pool has failed with NotInsertedLimitHit: the
\* candidate alone is larger than the pool
C37_Witness ==
    /\ last.op = "insert" /\ last.err = "NotInsertedLimitHit"
    /\ DOMAIN storage = {}
    /\ config.max_gas < WideGas

\* The step is the call of remove_transaction made for an imported block,
\* and the call fails
RemovalFails ==
    /\ Runs("service", "remove_transaction")
    /\ tasks'["service"].err # "none"

\* C38: when remove_transaction fails for an imported block, the handler
\* returns the error with its guards dropped and none of its steps left,
\* and current_height keeps its value, below the height of this block, for
\* as long as run has returned this error; current_height changes only at
\* the last step of a handler whose remove_transaction returned without
\* error, and becomes the height of its block
C38_FailedRemovalKeepsTheHeight ==
    [][/\ RemovalFails =>
             /\ current_height' = current_height
             /\ tasks'["service"].program = <<>>
             /\ tasks'["service"].held = {}
       /\ tasks'["service"].err # "none" =>
             current_height' < tasks'["service"].height
       /\ current_height' # current_height =>
             /\ Runs("service", "set_height")
             /\ tasks["service"].err = "none"
             /\ current_height' = tasks["service"].height]_vars

\* run has returned the error of remove_transaction for the second block
\* after the first block was handled, and current_height is the height of
\* the first block
C38_Witness ==
    /\ tasks["service"].program = <<>>
    /\ tasks["service"].err # "none"
    /\ tasks["service"].height = MaxHeight
    /\ current_height = MaxHeight - 1

\* The denominators of the ratios the pool builds from its records: the
\* max_gas of every stored transaction (selection key), the cumulative gas
\* of its subtree (collision and eviction), and the denominator of every
\* key of the selection index
NonZeroDenominators ==
    /\ \A i \in DOMAIN storage :
         /\ storage[i].transaction.max_gas > 0
         /\ storage[i].dependents_cumulative_gas > 0
    /\ \A e \in selection_algorithm : e.key.ratio[2] > 0

\* C39: no ratio is built with a zero denominator: an insert of a candidate
\* with max_gas = 0 fails with ZeroMaxGas (Database when there is no
\* persistent view) before a ratio is built and leaves the pool as it was,
\* and after every step every stored transaction has max_gas > 0, every
\* record a cumulative gas > 0 and every key of the selection index a
\* non-zero denominator
C39_NoRatioDividesByZero ==
    [][/\ NonZeroDenominators'
       /\ (InsertStep /\ pending[1].max_gas = 0) =>
             /\ last'.err \in {"Database", "ZeroMaxGas"}
             /\ UNCHANGED poolVars]_vars

\* A candidate with max_gas = 0 has been refused by a pool that holds a
\* transaction with a dependent, whose subtree ratio the collision and the
\* eviction rules use
C39_Witness ==
    /\ last.op = "insert" /\ last.err = "ZeroMaxGas"
    /\ \E i \in DOMAIN storage : storage[i].children # {}
    /\ NonZeroDenominators

====
